---- MODULE Spec2Model ----
(***************************************************************************)
(* Model of the WhatsApp webhook: idempotent ingestion                      *)
(* (FirestoreRepository), the per-conversation aggregation buffers with     *)
(* their threading.Timer callbacks, and the turn processor                  *)
(* (process_message_async), for one conversation id.                        *)
(*                                                                          *)
(* Spec      : concurrent requests, timer threads and turns, untimed (a     *)
(*             started timer may fire at any later moment).                 *)
(* SpecTimed : sequential arrivals on a discrete clock, timers firing at    *)
(*             their deadline.                                              *)
(* SpecRepo  : sequential calls of the repository methods.                  *)
(* SpecAgg   : the aggregation buffers and their timer callbacks alone.     *)
(* SpecTurn  : one delivery and its turn, with the collaborators raising,   *)
(*             a second run and a redelivery.                               *)
(* SpecCx    : the retry loop of detect_intent_text.                        *)
(* SpecSend  : send_whatsapp_text and its _post_with_retry.                 *)
(* SpecHandoff : one call of _handoff_from_cx.                              *)
(* SpecParams : the stored session_parameters over the turns.               *)
(* SpecAudio : the transcription step of a turn.                            *)
(* SpecIds   : the two identifiers of a payload.                            *)
(* SpecEnabled : Spec in the deployments with handoff enabled.              *)
(* SpecLocks, SpecLocksFair : the registry lock and the buffer locks.       *)
(* SpecReply : reply_text as a string.                                      *)
(***************************************************************************)
EXTENDS Integers, Sequences, FiniteSets, TLC

\* ---------------------------------------------------------------- bounds
\* requests (deliveries of inbound notifications) the arrays have room for
NumRequests == 3
Requests == 1..NumRequests
\* of these, the deliveries that Spec lets arrive
NumDeliveries == 2
Deliveries == 1..NumDeliveries

\* Owners of a turn: timer t runs its turn as owner t; the detached thread
\* that handle_webhook starts for request r (aggregation disabled) is owner
\* NumRequests + r.
Owners == 1..(2 * NumRequests)
ThreadOwner(r) == NumRequests + r

\* ------------------------------------------------------------- identifiers
\* Message ids are records of one shape: the inbound id (the MessageSid), the
\* aggregated id f"agg:{inbound_id}:{len(messages)}" and the outbound id
\* f"bot:{inbound_id}".
InboundId(sid) == [bot |-> FALSE, agg |-> FALSE, sid |-> sid, cnt |-> 0]
AggregatedId(inbound_id, n) == [inbound_id EXCEPT !.agg = TRUE, !.cnt = n]
OutMsgId(inbound_id) == [inbound_id EXCEPT !.bot = TRUE]

\* ------------------------------------------------------------------- text
\* Texts are sequences of characters, so that strip() and " | ".join() are
\* computed and not assumed.
IsSpace(ch) == ch = " "

RECURSIVE LStrip(_)
LStrip(s) == IF s # <<>> /\ IsSpace(Head(s)) THEN LStrip(Tail(s)) ELSE s

RECURSIVE RStrip(_)
RStrip(s) ==
    IF s # <<>> /\ IsSpace(s[Len(s)]) THEN RStrip(SubSeq(s, 1, Len(s) - 1)) ELSE s

Strip(s) == RStrip(LStrip(s))

Separator == <<" ", "|", " ">>

RECURSIVE Join(_)
Join(parts) ==
    IF parts = <<>> THEN <<>>
    ELSE IF Len(parts) = 1 THEN parts[1]
    ELSE parts[1] \o Separator \o Join(Tail(parts))

\* ----------------------------------------------------------- conversation
Statuses == {"bot", "pending_handoff", "claimed", "active", "resolved"}
HandoffStatuses == {"pending_handoff", "claimed", "active"}

\* assignee, assignee_name, wa_profile_name, session_parameters and
\* pending_since are kept as "is set"
NoConv == [exists |-> FALSE, status |-> "none", handoff_active |-> FALSE,
           assignee |-> FALSE, assignee_name |-> FALSE,
           last_message_text |-> <<>>, last_in_from |-> "none",
           wa_profile_name |-> FALSE, session_parameters |-> FALSE,
           pending_since |-> FALSE]

\* data written by ensure_conversation
DefaultConv == [exists |-> TRUE, status |-> "bot", handoff_active |-> FALSE,
                assignee |-> FALSE, assignee_name |-> FALSE,
                last_message_text |-> <<>>, last_in_from |-> "none",
                wa_profile_name |-> FALSE, session_parameters |-> FALSE,
                pending_since |-> FALSE]

\* A conversation as the human-agent tooling may have left it.
StoredConv(s, h) ==
    [DefaultConv EXCEPT !.status = s, !.handoff_active = h,
                        !.assignee = (s \in {"claimed", "active"}),
                        !.assignee_name = (s \in {"claimed", "active"})]

InitConvs ==
    {NoConv} \cup {StoredConv(s, FALSE) : s \in Statuses} \cup {StoredConv("bot", TRUE)}

\* --------------------------------------------------------------- settings
\* Time is counted in units of 1 / (TicksPerSecond * UnitsPerTick) seconds:
\* the minimal flush tick of _calculate_next_delay, 0.1 s, is UnitsPerTick
\* units, so that arrivals closer together than one flush tick exist.
TicksPerSecond == 10
UnitsPerTick == 2
Seconds(n) == n * TicksPerSecond * UnitsPerTick
FlushTick == UnitsPerTick

\* BaseConfig defaults of MESSAGE_DEBOUNCE_{INITIAL,EXTEND,MAX}_SECONDS
DefaultInitialSeconds == 5
DefaultExtendSeconds == 3
DefaultMaxSeconds == 10

\* The text settings are kept as "is a non-empty string": DF_HANDOFF_PARAM,
\* HANDOFF_DISABLED_TEXT and HANDOFF_ACK_TEXT all have non-empty defaults.
Settings(agg, disable, force, i, e, m) ==
    [FEATURE_MESSAGE_AGGREGATION |-> agg,
     FEATURE_DISABLE_HANDOFF |-> disable,
     FEATURE_FORCE_BOT_WHEN_HANDOFF_DISABLED |-> force,
     DF_HANDOFF_PARAM |-> TRUE,
     HANDOFF_DISABLED_TEXT |-> TRUE,
     HANDOFF_ACK_TEXT |-> TRUE,
     MESSAGE_DEBOUNCE_INITIAL_SECONDS |-> i,
     MESSAGE_DEBOUNCE_EXTEND_SECONDS |-> e,
     MESSAGE_DEBOUNCE_MAX_SECONDS |-> m]

DefaultDebounce(agg, disable, force) ==
    Settings(agg, disable, force, Seconds(DefaultInitialSeconds),
             Seconds(DefaultExtendSeconds), Seconds(DefaultMaxSeconds))

\* the deployments Spec starts from: aggregation on or off; handoff enabled
\* (the default), or disabled with the force-bot override on (its default) or off
SpecSettings ==
    {DefaultDebounce(agg, FALSE, TRUE) : agg \in BOOLEAN}
    \cup {DefaultDebounce(agg, TRUE, force) : agg \in BOOLEAN, force \in BOOLEAN}

\* time.time() of the first step; never 0 (a first_ts of 0.0 would be falsy)
StartTime == 1

Min(a, b) == IF a <= b THEN a ELSE b

\* ------------------------------------------------------------------ state
VARIABLES
    settings,     \* current_app.config, fixed per run
    now,          \* time.time(), in units
    conv,         \* the Conversation document of the conversation id
    msgs,         \* the messages subcollection: message id -> record
    createCount,  \* how often ensure_conversation wrote the default data
    req,          \* per request: position in handle_webhook and its locals
    registry,     \* _message_buffers[conversation_id]: a buffer, or 0
    buffers,      \* the buffer objects ever created (by creating request)
    timers,       \* the threading.Timer objects (by scheduling request)
    cb,           \* per timer: position in _process_aggregated_messages
    turn,         \* per owner: position in process_message_async
    hist          \* SpecRepo: the repository calls made, in order; SpecCx,
                  \* SpecSend, SpecHandoff and the specifications after them:
                  \* the call in progress

vars == <<settings, now, conv, msgs, createCount, req, registry, buffers,
          timers, cb, turn, hist>>

EmptyMsgs == [x \in {} |-> x]

\* no repository call made yet: their number and the last two of them
NoCalls == [n |-> 0, last |-> <<>>]

\* Inbound payload by MessageSid (a redelivery repeats it): Body and whether
\* a ProfileName comes with it.  The third message has a blank body.
BodyOf(sid) == IF sid = 1 THEN <<"a">> ELSE IF sid = 3 THEN <<" ">> ELSE <<"b">>
HasProfileName(sid) == sid = 1

\* a request that has not arrived (pc "idle") or never will (pc "absent")
NewReq(pc, sid) == [pc |-> pc, sid |-> sid, body |-> BodyOf(sid), conv_data |-> NoConv,
                    buf |-> 0, late |-> FALSE, resp |-> 0, ts |-> 0]

\* The MessageSids of the deliveries, up to renaming: a delivery repeats an
\* earlier MessageSid or carries the next new one.
RECURSIVE MaxSid(_, _)
MaxSid(f, n) == IF n = 0 THEN 0 ELSE IF f[n] > MaxSid(f, n - 1) THEN f[n] ELSE MaxSid(f, n - 1)
SidAssignments ==
    {f \in [Deliveries -> Deliveries] : \A r \in Deliveries : f[r] <= MaxSid(f, r - 1) + 1}

NoBuffer == [exists |-> FALSE, messages |-> <<>>, timer |-> 0, first_ts |-> 0,
             first_data |-> 0]
\* the dict _get_or_create_buffer creates
NewBuffer == [NoBuffer EXCEPT !.exists = TRUE]

NoTimer == [state |-> "none", deadline |-> 0]
IdleCb == [pc |-> "idle", buf |-> 0, messages |-> <<>>, first_data |-> 0]
\* a callback that has returned: its locals are gone
DoneCb == [IdleCb EXCEPT !.pc = "done"]

\* The locals of process_message_async, and what the run did: writes are the
\* update_conversation calls it made, reset the keys of reset_cx_params that
\* are None, cleared the null fields of the detect_intent request, hint and
\* bot_reply_text whether a line of the response equals a handoff hint and
\* whether its joined text is non-empty, cx_raised whether detect_intent_text
\* raised, raised whether an exception reached the handler of line 723.
IdleTurn == [pc |-> "idle", sid |-> InboundId(0), body |-> <<>>, src |-> <<>>,
             data |-> 0, status |-> "none", handoff |-> FALSE, reply |-> "none",
             ai |-> FALSE, recorded |-> FALSE, sent |-> FALSE, at |-> 0,
             writes |-> <<>>, reset |-> {}, cleared |-> {}, hint |-> FALSE,
             bot_reply_text |-> FALSE, cx_raised |-> FALSE, raised |-> FALSE,
             success |-> FALSE]

InitCommon ==
    /\ now = StartTime
    /\ registry = 0
    /\ buffers = [b \in Requests |-> NoBuffer]
    /\ timers = [t \in Requests |-> NoTimer]
    /\ cb = [t \in Requests |-> IdleCb]
    /\ turn = [k \in Owners |-> IdleTurn]
    /\ hist = NoCalls

Init ==
    /\ InitCommon
    /\ msgs = EmptyMsgs
    /\ createCount = 0
    /\ settings \in SpecSettings
    /\ conv \in InitConvs
    /\ \E f \in SidAssignments :
         req = [r \in Requests |->
                 IF r \in Deliveries THEN NewReq("idle", f[r]) ELSE NewReq("absent", 0)]

\* ------------------------------------------------------------- repository
\* FirestoreRepository.update_conversation: set(fields, merge=True)
UpdateConversation(c, fields) ==
    [f \in DOMAIN c |->
        IF f = "exists" THEN TRUE
        ELSE IF f \in DOMAIN fields THEN fields[f] ELSE c[f]]

\* the document add_message_if_new writes
MsgData(direction, by, text) == [direction |-> direction, by |-> by, text |-> text]

\* ref.set(msg_data)
SetMessage(store, id, data) ==
    [i \in DOMAIN store \cup {id} |-> IF i = id THEN data ELSE store[i]]

\* -------------------------------------------------------- handle_webhook
\* Every step below is one access to shared state (the store, the registry or
\* a buffer under its lock) together with the local computation before it.

\* Bookkeeping for the claims about redelivery: request r arrives when its
\* inbound id is already recorded.
AlreadyRecorded(r) == InboundId(req[r].sid) \in DOMAIN msgs

\* an ingestion that hands on the defaults in the place of the stored record
EnsureGetDefaults(r) ==
    /\ req[r].pc = "idle"
    /\ \A q \in Requests : q < r /\ req[q].sid = req[r].sid => req[q].pc # "idle"
    /\ \E valid \in BOOLEAN :
         req' = [req EXCEPT ![r] =
                   IF ~valid THEN [@ EXCEPT !.pc = "done", !.resp = 403]
                   ELSE [@ EXCEPT !.pc = IF conv.exists THEN "add_get" ELSE "ensure_set",
                                  !.conv_data = IF conv.exists THEN DefaultConv ELSE conv,
                                  !.late = AlreadyRecorded(r)]]
    /\ UNCHANGED <<settings, now, conv, msgs, createCount, registry, buffers,
                   timers, cb, turn, hist>>

\* is_valid_twilio_request, extract_inbound_request and the first read of
\* ensure_conversation (snap = ref.get()).  Deliveries of one MessageSid
\* are interchangeable, so they are taken to arrive in the order of their index.
EnsureGet(r) ==
    /\ req[r].pc = "idle"
    /\ \A q \in Requests : q < r /\ req[q].sid = req[r].sid => req[q].pc # "idle"
    /\ \E valid \in BOOLEAN :
         req' = [req EXCEPT ![r] =
                   IF ~valid THEN [@ EXCEPT !.pc = "done", !.resp = 403]
                   ELSE [@ EXCEPT !.pc = IF conv.exists THEN "add_get" ELSE "ensure_set",
                                  !.conv_data = conv,
                                  !.late = AlreadyRecorded(r)]]
    /\ UNCHANGED <<settings, now, conv, msgs, createCount, registry, buffers,
                   timers, cb, turn, hist>>

\* ensure_conversation: ref.set(data)
EnsureSet(r) ==
    /\ req[r].pc = "ensure_set"
    /\ conv' = DefaultConv
    /\ createCount' = createCount + 1
    /\ req' = [req EXCEPT ![r].pc = "ensure_reget"]
    /\ UNCHANGED <<settings, now, msgs, registry, buffers, timers, cb, turn, hist>>

\* ensure_conversation: return ref.get(), False
EnsureReget(r) ==
    /\ req[r].pc = "ensure_reget"
    /\ req' = [req EXCEPT ![r].pc = "add_get", ![r].conv_data = conv]
    /\ UNCHANGED <<settings, now, conv, msgs, createCount, registry, buffers,
                   timers, cb, turn, hist>>

\* a gate that writes the inbound message without looking it up
AddInboundGetUnchecked(r) ==
    /\ req[r].pc = "add_get"
    /\ req' = [req EXCEPT ![r].pc = "add_set"]
    /\ UNCHANGED <<settings, now, conv, msgs, createCount, registry, buffers,
                   timers, cb, turn, hist>>

\* add_message_if_new(inbound): if ref.get().exists: return False
AddInboundGet(r) ==
    /\ req[r].pc = "add_get"
    /\ req' = [req EXCEPT ![r] =
                 IF InboundId(req[r].sid) \in DOMAIN msgs
                 THEN [@ EXCEPT !.pc = "done", !.resp = 200]
                 ELSE [@ EXCEPT !.pc = "add_set"]]
    /\ UNCHANGED <<settings, now, conv, msgs, createCount, registry, buffers,
                   timers, cb, turn, hist>>

\* add_message_if_new(inbound): ref.set(msg_data); return True
AddInboundSet(r) ==
    /\ req[r].pc = "add_set"
    /\ msgs' = SetMessage(msgs, InboundId(req[r].sid), MsgData("in", "user", req[r].body))
    /\ req' = [req EXCEPT ![r].pc = "update"]
    /\ UNCHANGED <<settings, now, conv, createCount, registry, buffers, timers,
                   cb, turn, hist>>

\* conv_updates of handle_webhook
ConvUpdates(r) ==
    IF HasProfileName(req[r].sid)
    THEN [last_message_text |-> req[r].body, last_in_from |-> "user",
          wa_profile_name |-> TRUE]
    ELSE [last_message_text |-> req[r].body, last_in_from |-> "user"]

\* repo.update_conversation(conversation_id, **conv_updates)
RefreshConversation(r) ==
    /\ req[r].pc = "update"
    /\ conv' = UpdateConversation(conv, ConvUpdates(r))
    /\ req' = [req EXCEPT ![r].pc = "buffer"]
    /\ UNCHANGED <<settings, now, msgs, createCount, registry, buffers, timers,
                   cb, turn, hist>>

\* the arguments process_message_async is started with
StartedTurn(sid, body, src, data, t) ==
    [IdleTurn EXCEPT !.pc = "gate", !.sid = sid, !.body = body, !.src = src,
                     !.data = data, !.at = t]

\* a thread that is given the body without its surrounding whitespace
StartThreadStripped(r) ==
    /\ req[r].pc = "buffer"
    /\ ~settings.FEATURE_MESSAGE_AGGREGATION
    /\ turn' = [turn EXCEPT ![ThreadOwner(r)] =
                  StartedTurn(InboundId(req[r].sid), Strip(req[r].body), <<r>>, r, now)]
    /\ req' = [req EXCEPT ![r].pc = "done", ![r].resp = 200]
    /\ UNCHANGED <<settings, now, conv, msgs, createCount, registry, buffers,
                   timers, cb, hist>>

\* _add_to_aggregation_buffer returns False with aggregation off, and
\* handle_webhook starts the detached thread and acknowledges.
StartThread(r) ==
    /\ req[r].pc = "buffer"
    /\ ~settings.FEATURE_MESSAGE_AGGREGATION
    /\ turn' = [turn EXCEPT ![ThreadOwner(r)] =
                  StartedTurn(InboundId(req[r].sid), req[r].body, <<r>>, r, now)]
    /\ req' = [req EXCEPT ![r].pc = "done", ![r].resp = 200]
    /\ UNCHANGED <<settings, now, conv, msgs, createCount, registry, buffers,
                   timers, cb, hist>>

\* _get_or_create_buffer, under _buffers_lock
GetOrCreateBuffer(r) ==
    /\ req[r].pc = "buffer"
    /\ settings.FEATURE_MESSAGE_AGGREGATION
    /\ IF registry = 0
       THEN /\ registry' = r
            /\ buffers' = [buffers EXCEPT ![r] = NewBuffer]
            /\ req' = [req EXCEPT ![r].pc = "append", ![r].buf = r]
       ELSE /\ req' = [req EXCEPT ![r].pc = "append", ![r].buf = registry]
            /\ UNCHANGED <<registry, buffers>>
    /\ UNCHANGED <<settings, now, conv, msgs, createCount, timers, cb, turn, hist>>

\* ----------------------------------------------------- aggregation buffers
\* timer.cancel(): stops a timer that has not started its function yet
Cancel(tmrs, t) ==
    IF t # 0 /\ tmrs[t].state = "pending"
    THEN [tmrs EXCEPT ![t].state = "cancelled"]
    ELSE tmrs

\* a delay that takes the extend window for the first message too
CalculateNextDelayExtendOnly(buffer, s, t) ==
    LET first_ts == IF buffer.first_ts # 0 THEN buffer.first_ts ELSE t
        remaining_to_max == s.MESSAGE_DEBOUNCE_MAX_SECONDS - (t - first_ts)
    IN  IF remaining_to_max <= 0 THEN FlushTick
        ELSE Min(s.MESSAGE_DEBOUNCE_EXTEND_SECONDS, remaining_to_max)

\* _calculate_next_delay at time t
CalculateNextDelay(buffer, s, t) ==
    LET first_ts == IF buffer.first_ts # 0 THEN buffer.first_ts ELSE t
        elapsed == t - first_ts
        remaining_to_max == s.MESSAGE_DEBOUNCE_MAX_SECONDS - elapsed
    IN  IF remaining_to_max <= 0 THEN FlushTick
        ELSE IF Len(buffer.messages) <= 1
             THEN Min(s.MESSAGE_DEBOUNCE_INITIAL_SECONDS, remaining_to_max)
             ELSE Min(s.MESSAGE_DEBOUNCE_EXTEND_SECONDS, remaining_to_max)

\* an append that records the arrival time on every message
AppendedRestamps(buffer, r, t) ==
    LET first == IF buffer.messages = <<>>
                 THEN [buffer EXCEPT !.first_ts = t, !.first_data = r]
                 ELSE [buffer EXCEPT !.first_ts = t]
    IN  [first EXCEPT !.messages = Append(@, r)]

\* _add_to_aggregation_buffer, the part under buffer["lock"] before the timer
\* is replaced: first_ts and first_data on the first message, then the append.
\* A buffered message is named by the request that carried it.
Appended(buffer, r, t) ==
    LET first == IF buffer.messages = <<>>
                 THEN [buffer EXCEPT !.first_ts = t, !.first_data = r]
                 ELSE buffer
    IN  [first EXCEPT !.messages = Append(@, r)]

\* ... and the cancel of the old timer and the start of the new one, which is
\* named by the request that schedules it.
Rescheduled(tmrs, buffer, r, s, t) ==
    [Cancel(tmrs, buffer.timer) EXCEPT
        ![r] = [state |-> "pending", deadline |-> t + CalculateNextDelay(buffer, s, t)]]

\* _add_to_aggregation_buffer, with buffer["lock"] held, on the buffer that
\* _get_or_create_buffer returned
AppendAndSchedule(r) ==
    /\ req[r].pc = "append"
    /\ LET b == req[r].buf
           buffer == Appended(buffers[b], r, now)
       IN  /\ timers' = Rescheduled(timers, buffer, r, settings, now)
           /\ buffers' = [buffers EXCEPT ![b] = [buffer EXCEPT !.timer = r]]
    /\ req' = [req EXCEPT ![r].pc = "done", ![r].resp = 200, ![r].ts = now]
    /\ UNCHANGED <<settings, now, conv, msgs, createCount, registry, cb, turn, hist>>

\* _clear_buffer, under _buffers_lock: pops whatever buffer the registry holds
\* for the conversation and cancels that buffer's timer
ClearedTimers(tmrs, reg, bufs) ==
    IF reg # 0 THEN Cancel(tmrs, bufs[reg].timer) ELSE tmrs

\* message_bodies of _process_aggregated_messages
RECURSIVE MessageBodies(_, _)
MessageBodies(messages, rq) ==
    IF messages = <<>> THEN <<>>
    ELSE LET b == Strip(rq[Head(messages)].body)
         IN  (IF b # <<>> THEN <<b>> ELSE <<>>) \o MessageBodies(Tail(messages), rq)

\* the bodies as they arrived, joined without trimming, blank ones left out
RECURSIVE RawBodies(_, _)
RawBodies(messages, rq) ==
    IF messages = <<>> THEN <<>>
    ELSE LET b == rq[Head(messages)].body
         IN  (IF Strip(b) # <<>> THEN <<b>> ELSE <<>>) \o RawBodies(Tail(messages), rq)

AggregatedBodyUntrimmed(messages, rq) == Join(RawBodies(messages, rq))

\* aggregated_body
AggregatedBody(messages, rq) ==
    LET message_bodies == MessageBodies(messages, rq)
    IN  IF Len(message_bodies) = 1 THEN message_bodies[1] ELSE Join(message_bodies)

\* Lines 229-289: nothing is handed over when no body is left after trimming;
\* otherwise process_message_async is called with the aggregated body and id
\* and the context of the buffer's first message.
HandedTurn(messages, first_data, rq, t) ==
    IF MessageBodies(messages, rq) = <<>>
    THEN IdleTurn
    ELSE StartedTurn(AggregatedId(InboundId(rq[first_data].sid), Len(messages)),
                     AggregatedBody(messages, rq), messages, first_data, t)

\* The timer's wait ends without a cancel: the Timer thread calls
\* _process_aggregated_messages, which reads _message_buffers.get(conversation_id).
TimerFire(t) ==
    /\ timers[t].state = "pending"
    /\ IF registry = 0
       THEN /\ timers' = [timers EXCEPT ![t].state = "done"]
            /\ cb' = [cb EXCEPT ![t] = DoneCb]
       ELSE /\ timers' = [timers EXCEPT ![t].state = "running"]
            /\ cb' = [cb EXCEPT ![t].pc = "lock", ![t].buf = registry]
    /\ UNCHANGED <<settings, now, conv, msgs, createCount, req, registry, buffers,
                   turn, hist>>

\* with buffer["lock"]: copy the messages; an empty buffer is cleared and the
\* callback returns, otherwise buffer["timer"] = None
TakeMessages(t) ==
    /\ cb[t].pc = "lock"
    /\ LET b == cb[t].buf
           messages == buffers[b].messages
           first_data == buffers[b].first_data
       IN  IF messages = <<>> \/ first_data = 0
           THEN /\ registry' = 0
                /\ timers' = [ClearedTimers(timers, registry, buffers) EXCEPT
                                ![t].state = "done"]
                /\ cb' = [cb EXCEPT ![t] = DoneCb]
                /\ UNCHANGED buffers
           ELSE /\ buffers' = [buffers EXCEPT ![b].timer = 0]
                /\ cb' = [cb EXCEPT ![t].pc = "clear", ![t].messages = messages,
                                    ![t].first_data = first_data]
                /\ UNCHANGED <<registry, timers>>
    /\ UNCHANGED <<settings, now, conv, msgs, createCount, req, turn, hist>>

\* _clear_buffer after the lock is released, then the aggregated body and id
\* and the call of process_message_async in the timer's thread
ClearAndProcess(t) ==
    /\ cb[t].pc = "clear"
    /\ registry' = 0
    /\ timers' = [ClearedTimers(timers, registry, buffers) EXCEPT ![t].state = "done"]
    /\ cb' = [cb EXCEPT ![t] = DoneCb]
    /\ turn' = [turn EXCEPT ![t] = HandedTurn(cb[t].messages, cb[t].first_data, req, now)]
    /\ UNCHANGED <<settings, now, conv, msgs, createCount, req, buffers, hist>>

\* -------------------------------------------------- process_message_async
\* What detect_intent_text gives back: an exception after its attempts, or the
\* response, of which the turn uses whether a text line equals a handoff hint,
\* whether the handoff parameter is truthy, whether there is any reply text
\* and whether cx_all_params_dict is non-empty.
CxResults ==
    {[ok |-> FALSE, hint |-> FALSE, param |-> FALSE, texts |-> FALSE, params |-> FALSE]}
    \cup {[ok |-> TRUE, hint |-> h, param |-> p, texts |-> x, params |-> d] :
            h \in BOOLEAN, p \in BOOLEAN, x \in BOOLEAN, d \in BOOLEAN}

\* a response the backend can give: a matched hint is one of the text lines,
\* a truthy handoff parameter is one of the parameters
CxPossible(res) == (res.hint => res.texts) /\ (res.param => res.params)

\* _handoff_from_cx
HandoffFromCx(res, allow_param) == res.hint \/ (allow_param /\ res.param)

\* a reply that prefers the configured texts to the bot's own
ReplyTextConfiguredFirst(handoff_requested, bot_reply_text, s) ==
    IF handoff_requested /\ s.FEATURE_DISABLE_HANDOFF
    THEN IF s.HANDOFF_ACK_TEXT THEN "HANDOFF_ACK_TEXT"
         ELSE IF s.HANDOFF_DISABLED_TEXT THEN "HANDOFF_DISABLED_TEXT"
         ELSE IF bot_reply_text THEN "bot_reply_text"
         ELSE "FALLBACK_STABILITY_TEXT"
    ELSE IF handoff_requested
    THEN IF s.HANDOFF_ACK_TEXT THEN "HANDOFF_ACK_TEXT"
         ELSE IF bot_reply_text THEN "bot_reply_text"
         ELSE "FALLBACK_STABILITY_TEXT"
    ELSE IF bot_reply_text THEN "bot_reply_text" ELSE "FALLBACK_STABILITY_TEXT"

\* reply_text, as the name of the string it evaluates to
ReplyText(handoff_requested, bot_reply_text, s) ==
    IF handoff_requested /\ s.FEATURE_DISABLE_HANDOFF
    THEN IF s.HANDOFF_DISABLED_TEXT THEN "HANDOFF_DISABLED_TEXT"
         ELSE IF bot_reply_text THEN "bot_reply_text"
         ELSE IF s.HANDOFF_ACK_TEXT THEN "HANDOFF_ACK_TEXT"
         ELSE "FALLBACK_STABILITY_TEXT"
    ELSE IF handoff_requested
    THEN IF bot_reply_text THEN "bot_reply_text"
         ELSE IF s.HANDOFF_ACK_TEXT THEN "HANDOFF_ACK_TEXT"
         ELSE "FALLBACK_STABILITY_TEXT"
    ELSE IF bot_reply_text THEN "bot_reply_text" ELSE "FALLBACK_STABILITY_TEXT"

\* fields of the update_conversation calls that reset a conversation to bot
BotFields == [status |-> "bot", handoff_active |-> FALSE, assignee |-> FALSE,
              assignee_name |-> FALSE]
PendingFields == [status |-> "pending_handoff", handoff_active |-> FALSE,
                  assignee |-> FALSE, assignee_name |-> FALSE, pending_since |-> TRUE]

\* status of the snapshot: (conv_data.get("status") or "bot").lower()
SnapshotStatus(conv_data) ==
    IF conv_data.status = "none" THEN "bot" ELSE conv_data.status

\* the snapshot a turn works on: conv_data of the request whose data it got
SnapshotOf(k) == req[turn[k].data].conv_data

\* a reopening that clears the configured handoff parameter only
ResetCxParamsConfiguredOnly(was_resolved, s) ==
    IF was_resolved /\ s.DF_HANDOFF_PARAM THEN {"DF_HANDOFF_PARAM"} ELSE {}

\* reset_cx_params of a reopened conversation (lines 540-555): the keys set
\* to None, DF_HANDOFF_PARAM standing for the name that setting holds
ResetCxParams(was_resolved, s) ==
    IF ~was_resolved THEN {}
    ELSE {"handoff_request", "handoff_requested"}
         \cup (IF s.DF_HANDOFF_PARAM THEN {"DF_HANDOFF_PARAM"} ELSE {})

\* detect_intent_text: the fields of the request's parameters that are
\* null_value, one for each session_params value that is None
NullFields(session_params) == session_params

\* a gate that keeps a turn in a handoff state silent whatever the overrides
SuppressedWithOverrides(conv_data, s) ==
    SnapshotStatus(conv_data) \in HandoffStatuses \/ conv_data.handoff_active

\* whether the turn is in a handoff state and is not converted back to bot
Suppressed(conv_data, s) ==
    /\ SnapshotStatus(conv_data) \in HandoffStatuses \/ conv_data.handoff_active
    /\ ~(s.FEATURE_DISABLE_HANDOFF /\ s.FEATURE_FORCE_BOT_WHEN_HANDOFF_DISABLED)

\* a suppressed turn that resets the conversation to bot before it returns
TurnGateWrites(k) ==
    /\ turn[k].pc = "gate"
    /\ turn' = [turn EXCEPT ![k].pc = IF Suppressed(SnapshotOf(k), settings)
                                      THEN "done" ELSE "ai",
                            ![k].status = "bot",
                            ![k].writes = Append(@, BotFields)]
    /\ conv' = UpdateConversation(conv, BotFields)
    /\ UNCHANGED <<settings, now, msgs, createCount, req, registry, buffers,
                   timers, cb, hist>>

\* a turn that goes to the AI backend whatever its snapshot says
TurnGateOpen(k) ==
    /\ turn[k].pc = "gate"
    /\ turn' = [turn EXCEPT ![k].pc = "ai", ![k].status = "bot"]
    /\ UNCHANGED <<settings, now, conv, msgs, createCount, req, registry, buffers,
                   timers, cb, hist>>

\* a gate that leaves the turn's status as the snapshot has it
TurnGateKeepsStatus(k) ==
    /\ turn[k].pc = "gate"
    /\ LET conv_data == SnapshotOf(k)
           status == SnapshotStatus(conv_data)
           in_handoff == status \in HandoffStatuses \/ conv_data.handoff_active
       IN  IF Suppressed(conv_data, settings)
           THEN /\ turn' = [turn EXCEPT ![k].pc = "done", ![k].status = status]
                /\ UNCHANGED conv
           ELSE LET was_resolved == ~in_handoff /\ status = "resolved"
                IN  /\ turn' = [turn EXCEPT
                          ![k].pc = "ai", ![k].status = status,
                          ![k].reset = ResetCxParams(was_resolved, settings),
                          ![k].writes = IF in_handoff \/ was_resolved
                                        THEN Append(@, BotFields) ELSE @]
                    /\ IF in_handoff \/ was_resolved
                       THEN conv' = UpdateConversation(conv, BotFields)
                       ELSE UNCHANGED conv
    /\ UNCHANGED <<settings, now, msgs, createCount, req, registry, buffers,
                   timers, cb, hist>>

\* Lines 515-555: the handoff gate on the snapshot, the forced conversion to
\* bot, the reopening of a resolved conversation.
TurnGate(k) ==
    /\ turn[k].pc = "gate"
    /\ LET conv_data == SnapshotOf(k)
           status == SnapshotStatus(conv_data)
           in_handoff == status \in HandoffStatuses \/ conv_data.handoff_active
       IN  IF Suppressed(conv_data, settings)
           THEN /\ turn' = [turn EXCEPT ![k].pc = "done", ![k].status = status]
                /\ UNCHANGED conv
           ELSE LET was_resolved == ~in_handoff /\ status = "resolved"
                IN  /\ turn' = [turn EXCEPT
                          ![k].pc = "ai", ![k].status = "bot",
                          ![k].reset = ResetCxParams(was_resolved, settings),
                          ![k].writes = IF in_handoff \/ was_resolved
                                        THEN Append(@, BotFields) ELSE @]
                    /\ IF in_handoff \/ was_resolved
                       THEN conv' = UpdateConversation(conv, BotFields)
                       ELSE UNCHANGED conv
    /\ UNCHANGED <<settings, now, msgs, createCount, req, registry, buffers,
                   timers, cb, hist>>

\* a turn that stays silent when detect_intent_text raises
TurnDetectSilent(k) ==
    /\ turn[k].pc = "ai"
    /\ \E res \in CxResults :
         /\ CxPossible(res)
         /\ IF ~res.ok
            THEN /\ turn' = [turn EXCEPT ![k].pc = "done", ![k].ai = TRUE,
                                         ![k].cx_raised = TRUE,
                                         ![k].cleared = NullFields(turn[k].reset)]
                 /\ UNCHANGED conv
            ELSE LET allow == turn[k].status = "bot" /\ settings.DF_HANDOFF_PARAM
                     handoff_requested == HandoffFromCx(res, allow)
                 IN  /\ turn' = [turn EXCEPT
                           ![k].pc = IF handoff_requested /\ ~settings.FEATURE_DISABLE_HANDOFF
                                     THEN "handoff" ELSE "out_get",
                           ![k].ai = TRUE,
                           ![k].cleared = NullFields(turn[k].reset),
                           ![k].handoff = handoff_requested,
                           ![k].hint = res.hint,
                           ![k].bot_reply_text = res.texts,
                           ![k].reply = ReplyText(handoff_requested, res.texts, settings),
                           ![k].writes = IF res.params
                                         THEN Append(@, [session_parameters |-> TRUE])
                                         ELSE @]
                     /\ IF res.params
                        THEN conv' = UpdateConversation(conv, [session_parameters |-> TRUE])
                        ELSE UNCHANGED conv
    /\ UNCHANGED <<settings, now, msgs, createCount, req, registry, buffers,
                   timers, cb, hist>>

\* a turn that hands off although handoff is disabled
TurnDetectHandsOff(k) ==
    /\ turn[k].pc = "ai"
    /\ \E res \in CxResults :
         /\ CxPossible(res)
         /\ IF ~res.ok
            THEN /\ turn' = [turn EXCEPT ![k].pc = "out_get", ![k].ai = TRUE,
                                         ![k].cx_raised = TRUE,
                                         ![k].cleared = NullFields(turn[k].reset),
                                         ![k].reply = "FALLBACK_STABILITY_TEXT"]
                 /\ UNCHANGED conv
            ELSE LET allow == turn[k].status = "bot" /\ settings.DF_HANDOFF_PARAM
                     handoff_requested == HandoffFromCx(res, allow)
                 IN  /\ turn' = [turn EXCEPT
                           ![k].pc = IF handoff_requested THEN "handoff" ELSE "out_get",
                           ![k].ai = TRUE,
                           ![k].cleared = NullFields(turn[k].reset),
                           ![k].handoff = handoff_requested,
                           ![k].hint = res.hint,
                           ![k].bot_reply_text = res.texts,
                           ![k].reply = ReplyText(handoff_requested, res.texts, settings),
                           ![k].writes = IF res.params
                                         THEN Append(@, [session_parameters |-> TRUE])
                                         ELSE @]
                     /\ IF res.params
                        THEN conv' = UpdateConversation(conv, [session_parameters |-> TRUE])
                        ELSE UNCHANGED conv
    /\ UNCHANGED <<settings, now, msgs, createCount, req, registry, buffers,
                   timers, cb, hist>>

\* Lines 631-699: detect_intent_text, the session_parameters it returned, the
\* handoff decision and the reply text; on an exception the fallback reply.
TurnDetect(k) ==
    /\ turn[k].pc = "ai"
    /\ \E res \in CxResults :
         /\ CxPossible(res)
         /\ IF ~res.ok
            THEN /\ turn' = [turn EXCEPT ![k].pc = "out_get", ![k].ai = TRUE,
                                         ![k].cx_raised = TRUE,
                                         ![k].cleared = NullFields(turn[k].reset),
                                         ![k].reply = "FALLBACK_STABILITY_TEXT"]
                 /\ UNCHANGED conv
            ELSE LET allow == turn[k].status = "bot" /\ settings.DF_HANDOFF_PARAM
                     handoff_requested == HandoffFromCx(res, allow)
                 IN  /\ turn' = [turn EXCEPT
                           ![k].pc = IF handoff_requested /\ ~settings.FEATURE_DISABLE_HANDOFF
                                     THEN "handoff" ELSE "out_get",
                           ![k].ai = TRUE,
                           ![k].cleared = NullFields(turn[k].reset),
                           ![k].handoff = handoff_requested,
                           ![k].hint = res.hint,
                           ![k].bot_reply_text = res.texts,
                           ![k].reply = ReplyText(handoff_requested, res.texts, settings),
                           ![k].writes = IF res.params
                                         THEN Append(@, [session_parameters |-> TRUE])
                                         ELSE @]
                     /\ IF res.params
                        THEN conv' = UpdateConversation(conv, [session_parameters |-> TRUE])
                        ELSE UNCHANGED conv
    /\ UNCHANGED <<settings, now, msgs, createCount, req, registry, buffers,
                   timers, cb, hist>>

\* a handoff that assigns the conversation itself
TurnHandoffClaims(k) ==
    /\ turn[k].pc = "handoff"
    /\ conv' = UpdateConversation(conv, [PendingFields EXCEPT !.status = "claimed"])
    /\ turn' = [turn EXCEPT ![k].pc = "out_get",
                            ![k].writes = Append(@, [PendingFields EXCEPT !.status = "claimed"])]
    /\ UNCHANGED <<settings, now, msgs, createCount, req, registry, buffers,
                   timers, cb, hist>>

\* Lines 683-692: update_conversation(status="pending_handoff", ...)
TurnHandoff(k) ==
    /\ turn[k].pc = "handoff"
    /\ conv' = UpdateConversation(conv, PendingFields)
    /\ turn' = [turn EXCEPT ![k].pc = "out_get", ![k].writes = Append(@, PendingFields)]
    /\ UNCHANGED <<settings, now, msgs, createCount, req, registry, buffers,
                   timers, cb, hist>>

\* a turn that records its reply without looking it up
TurnOutGetUnchecked(k) ==
    /\ turn[k].pc = "out_get"
    /\ turn' = [turn EXCEPT ![k].pc = "out_set"]
    /\ UNCHANGED <<settings, now, conv, msgs, createCount, req, registry, buffers,
                   timers, cb, hist>>

\* add_message_if_new(out_msg_id): if ref.get().exists: return False
TurnOutGet(k) ==
    /\ turn[k].pc = "out_get"
    /\ turn' = [turn EXCEPT ![k].pc =
                  IF OutMsgId(turn[k].sid) \in DOMAIN msgs THEN "done" ELSE "out_set"]
    /\ UNCHANGED <<settings, now, conv, msgs, createCount, req, registry, buffers,
                   timers, cb, hist>>

\* add_message_if_new(out_msg_id): ref.set(msg_data); return True, and then
\* send_whatsapp_text, whose result is only logged
TurnOutSet(k) ==
    /\ turn[k].pc = "out_set"
    /\ msgs' = SetMessage(msgs, OutMsgId(turn[k].sid), MsgData("out", "bot", turn[k].reply))
    /\ turn' = [turn EXCEPT ![k].pc = "done", ![k].recorded = TRUE, ![k].sent = TRUE,
                            ![k].success = TRUE]
    /\ UNCHANGED <<settings, now, conv, createCount, req, registry, buffers,
                   timers, cb, hist>>

\* ------------------------------------------------------------------- Spec
Next ==
    \/ \E r \in Requests :
         \/ EnsureGet(r)
         \/ EnsureSet(r)
         \/ EnsureReget(r)
         \/ AddInboundGet(r)
         \/ AddInboundSet(r)
         \/ RefreshConversation(r)
         \/ StartThread(r)
         \/ GetOrCreateBuffer(r)
         \/ AppendAndSchedule(r)
    \/ \E t \in Requests :
         \/ TimerFire(t)
         \/ TakeMessages(t)
         \/ ClearAndProcess(t)
    \/ \E k \in Owners :
         \/ TurnGate(k)
         \/ TurnDetect(k)
         \/ TurnHandoff(k)
         \/ TurnOutGet(k)
         \/ TurnOutSet(k)

Spec == Init /\ [][Next]_vars

\* ---------------------------------------------------------------- SpecAgg
\* The aggregation buffer manager alone: NumRequests requests, each with a
\* message of its own, have been ingested and stand at their call of
\* _add_to_aggregation_buffer.  A turn counts as handed over when
\* process_message_async is called; its steps are not taken here.
AggMsgs ==
    [i \in {InboundId(r) : r \in Requests} |-> MsgData("in", "user", BodyOf(i.sid))]

\* the conversation after these requests' ensure_conversation and refresh
AggConv ==
    [DefaultConv EXCEPT !.last_message_text = BodyOf(NumRequests),
                        !.last_in_from = "user", !.wa_profile_name = TRUE]

InitAgg ==
    /\ InitCommon
    /\ settings = DefaultDebounce(TRUE, FALSE, TRUE)
    /\ conv = AggConv
    /\ msgs = AggMsgs
    /\ createCount = 1
    /\ req = [r \in Requests |-> [NewReq("buffer", r) EXCEPT !.conv_data = DefaultConv]]

NextAgg ==
    \/ \E r \in Requests :
         \/ GetOrCreateBuffer(r)
         \/ AppendAndSchedule(r)
    \/ \E t \in Requests :
         \/ TimerFire(t)
         \/ TakeMessages(t)
         \/ ClearAndProcess(t)

SpecAgg == InitAgg /\ [][NextAgg]_vars

\* --------------------------------------------------------------- SpecTurn
\* One delivery taken through handle_webhook, the buffer or the thread and
\* process_message_async, with collaborators that can raise: the steps of Spec
\* and, besides them, the steps below in which a storage call, the send or the
\* timer callback raises.  Every setting the turn reads is free, and so are the
\* status and the handoff_active flag the human-agent tooling left.

\* an exception of the turn that reaches the request and its response
GateUpdateRaisesPropagates(k) ==
    /\ turn[k].pc = "gate"
    /\ turn' = [turn EXCEPT ![k].pc = "done", ![k].raised = TRUE]
    /\ req' = [req EXCEPT ![turn[k].data].resp = 500]
    /\ UNCHANGED <<settings, now, conv, msgs, createCount, registry, buffers,
                   timers, cb, hist>>

\* A write that raised may or may not have reached the store.
\* update_conversation raises at line 525 or 543: the handler of line 723
GateUpdateRaises(k) ==
    /\ turn[k].pc = "gate"
    /\ LET conv_data == SnapshotOf(k)
           status == SnapshotStatus(conv_data)
           in_handoff == status \in HandoffStatuses \/ conv_data.handoff_active
       IN  /\ ~Suppressed(conv_data, settings)
           /\ in_handoff \/ status = "resolved"
    /\ turn' = [turn EXCEPT ![k].pc = "done", ![k].raised = TRUE]
    /\ conv' \in {conv, UpdateConversation(conv, BotFields)}
    /\ UNCHANGED <<settings, now, msgs, createCount, req, registry, buffers,
                   timers, cb, hist>>

\* update_conversation(session_parameters=...) raises at line 650, inside the
\* try of line 631: the fallback reply of lines 652-665
DetectUpdateRaises(k) ==
    /\ turn[k].pc = "ai"
    /\ turn' = [turn EXCEPT ![k].pc = "out_get", ![k].ai = TRUE,
                            ![k].cleared = NullFields(turn[k].reset),
                            ![k].reply = "FALLBACK_STABILITY_TEXT"]
    /\ conv' \in {conv, UpdateConversation(conv, [session_parameters |-> TRUE])}
    /\ UNCHANGED <<settings, now, msgs, createCount, req, registry, buffers,
                   timers, cb, hist>>

\* a turn that sends the fallback after its handoff write raised
HandoffUpdateRaisesReplies(k) ==
    /\ turn[k].pc = "handoff"
    /\ turn' = [turn EXCEPT ![k].pc = "done", ![k].raised = TRUE, ![k].sent = TRUE,
                            ![k].reply = "FALLBACK_STABILITY_TEXT"]
    /\ UNCHANGED <<settings, now, conv, msgs, createCount, req, registry, buffers,
                   timers, cb, hist>>

\* update_conversation(status="pending_handoff") raises at line 685
HandoffUpdateRaises(k) ==
    /\ turn[k].pc = "handoff"
    /\ turn' = [turn EXCEPT ![k].pc = "done", ![k].raised = TRUE]
    /\ conv' \in {conv, UpdateConversation(conv, PendingFields)}
    /\ UNCHANGED <<settings, now, msgs, createCount, req, registry, buffers,
                   timers, cb, hist>>

\* add_message_if_new(out_msg_id) raises in ref.get(), at line 701 or 655
OutGetRaises(k) ==
    /\ turn[k].pc = "out_get"
    /\ turn' = [turn EXCEPT ![k].pc = "done", ![k].raised = TRUE]
    /\ UNCHANGED <<settings, now, conv, msgs, createCount, req, registry, buffers,
                   timers, cb, hist>>

\* add_message_if_new(out_msg_id) raises in ref.set(msg_data)
OutSetRaises(k) ==
    /\ turn[k].pc = "out_set"
    /\ turn' = [turn EXCEPT ![k].pc = "done", ![k].raised = TRUE]
    /\ msgs' \in {msgs, SetMessage(msgs, OutMsgId(turn[k].sid),
                                   MsgData("out", "bot", turn[k].reply))}
    /\ UNCHANGED <<settings, now, conv, createCount, req, registry, buffers, timers,
                   cb, hist>>

\* the reply is recorded, and send_whatsapp_text raises before it posts
\* (an exception that is no RequestException)
SendRaises(k) ==
    /\ turn[k].pc = "out_set"
    /\ msgs' = SetMessage(msgs, OutMsgId(turn[k].sid), MsgData("out", "bot", turn[k].reply))
    /\ turn' = [turn EXCEPT ![k].pc = "done", ![k].recorded = TRUE, ![k].raised = TRUE]
    /\ UNCHANGED <<settings, now, conv, createCount, req, registry, buffers, timers,
                   cb, hist>>

\* a send that fails and whose reply was not recorded
SendFailsUnrecorded(k) ==
    /\ turn[k].pc = "out_set"
    /\ turn' = [turn EXCEPT ![k].pc = "done", ![k].sent = TRUE]
    /\ UNCHANGED <<settings, now, conv, msgs, createCount, req, registry, buffers,
                   timers, cb, hist>>

\* the reply is recorded and send_whatsapp_text returns False (lines 657-664
\* and 706-721): the failure is logged and the turn returns
SendFails(k) ==
    /\ turn[k].pc = "out_set"
    /\ msgs' = SetMessage(msgs, OutMsgId(turn[k].sid), MsgData("out", "bot", turn[k].reply))
    /\ turn' = [turn EXCEPT ![k].pc = "done", ![k].recorded = TRUE, ![k].sent = TRUE]
    /\ UNCHANGED <<settings, now, conv, createCount, req, registry, buffers, timers,
                   cb, hist>>

\* _process_aggregated_messages raises after _clear_buffer and before its call
\* of process_message_async (lines 229-272): the Timer thread ends
CallbackRaises(t) ==
    /\ cb[t].pc = "clear"
    /\ registry' = 0
    /\ timers' = [ClearedTimers(timers, registry, buffers) EXCEPT ![t].state = "done"]
    /\ cb' = [cb EXCEPT ![t] = DoneCb]
    /\ UNCHANGED <<settings, now, conv, msgs, createCount, req, buffers, turn, hist>>

\* the owner a second run of a turn is given: the first one no request uses
FreeOwners ==
    {k \in Owners :
        /\ turn[k].pc = "idle"
        /\ req[IF k <= NumRequests THEN k ELSE k - NumRequests].pc = "absent"}

\* process_message_async is called once more with the arguments of a run that
\* has returned (the second run and the redelivery below are taken one at a
\* time: a behaviour has one or the other)
Rerun(k) ==
    /\ turn[k].pc = "done"
    /\ req[NumRequests].pc = "absent"
    /\ \A j \in Owners \ {k} : turn[j].pc = "idle"
    /\ FreeOwners # {}
    /\ LET again == CHOOSE j \in FreeOwners : \A i \in FreeOwners : j <= i
       IN  turn' = [turn EXCEPT ![again] =
                      StartedTurn(turn[k].sid, turn[k].body, turn[k].src, turn[k].data, now)]
    /\ UNCHANGED <<settings, now, conv, msgs, createCount, req, registry, buffers,
                   timers, cb, hist>>

\* The provider delivers the message again after its turn ended in an
\* exception: the last request arrives with the MessageSid of the first.
Redeliver ==
    /\ req[NumRequests].pc = "absent"
    /\ \E k \in Owners :
         /\ turn[k].pc = "done" /\ turn[k].raised
         /\ \A j \in Owners \ {k} : turn[j].pc = "idle"
    /\ req' = [req EXCEPT ![NumRequests] = NewReq("idle", req[1].sid)]
    /\ UNCHANGED <<settings, now, conv, msgs, createCount, registry, buffers,
                   timers, cb, turn, hist>>

\* every combination of the settings process_message_async and the add read
TurnSettings ==
    {[DefaultDebounce(agg, disable, force) EXCEPT
         !.DF_HANDOFF_PARAM = param, !.HANDOFF_DISABLED_TEXT = disabled_text,
         !.HANDOFF_ACK_TEXT = ack_text] :
        agg \in BOOLEAN, disable \in BOOLEAN, force \in BOOLEAN, param \in BOOLEAN,
        disabled_text \in BOOLEAN, ack_text \in BOOLEAN}

\* the conversation is absent, or any status with the flag set or not
TurnConvs == {NoConv} \cup {StoredConv(s, h) : s \in Statuses, h \in BOOLEAN}

\* the message delivered: the one with a plain body or the one with a blank body
TurnSids == {1, 3}

InitTurn ==
    /\ InitCommon
    /\ msgs = EmptyMsgs
    /\ createCount = 0
    /\ settings \in TurnSettings
    /\ conv \in TurnConvs
    /\ \E sid \in TurnSids :
         req = [r \in Requests |-> IF r = 1 THEN NewReq("idle", sid) ELSE NewReq("absent", 0)]

NextTurn ==
    \/ \E r \in Requests :
         \/ EnsureGet(r)
         \/ EnsureSet(r)
         \/ EnsureReget(r)
         \/ AddInboundGet(r)
         \/ AddInboundSet(r)
         \/ RefreshConversation(r)
         \/ StartThread(r)
         \/ GetOrCreateBuffer(r)
         \/ AppendAndSchedule(r)
    \/ \E t \in Requests :
         \/ TimerFire(t)
         \/ TakeMessages(t)
         \/ ClearAndProcess(t)
         \/ CallbackRaises(t)
    \/ \E k \in Owners :
         \/ TurnGate(k)
         \/ TurnDetect(k)
         \/ TurnHandoff(k)
         \/ TurnOutGet(k)
         \/ TurnOutSet(k)
         \/ GateUpdateRaises(k)
         \/ DetectUpdateRaises(k)
         \/ HandoffUpdateRaises(k)
         \/ OutGetRaises(k)
         \/ OutSetRaises(k)
         \/ SendRaises(k)
         \/ SendFails(k)
         \/ Rerun(k)
    \/ Redeliver

SpecTurn == InitTurn /\ [][NextTurn]_vars

\* --------------------------------------------------------------- SpecRepo
\* The repository called by one caller: any sequence of up to MaxCalls calls
\* of ensure_conversation, add_message_if_new and update_conversation.
MaxCalls == 4

\* a message id that is None or "" ...
NoId == InboundId(0)
\* ... for which add_message_if_new takes str(uuid.uuid4()), a new id
Uuid(store) == InboundId(0 - (1 + Cardinality({i \in DOMAIN store : i.sid < 0})))

\* a gate that writes the record without looking it up
AddMessageAlways(store, message_id, data) ==
    LET id == IF message_id = NoId THEN Uuid(store) ELSE message_id
    IN  [store |-> SetMessage(store, id, data), created |-> TRUE]

\* add_message_if_new as a whole: the store afterwards and the value returned
AddMessageIfNew(store, message_id, data) ==
    LET id == IF message_id = NoId THEN Uuid(store) ELSE message_id
    IN  IF id \in DOMAIN store
        THEN [store |-> store, created |-> FALSE]
        ELSE [store |-> SetMessage(store, id, data), created |-> TRUE]

\* the arguments the calls are made with
RepoIds == {NoId, InboundId(1), OutMsgId(InboundId(1))}
RepoData == {MsgData("in", "user", <<"a">>), MsgData("out", "bot", <<"b">>)}
RepoFields == {[last_message_text |-> <<"a">>, last_in_from |-> "user"],
               [status |-> "pending_handoff", handoff_active |-> FALSE]}

\* the record of a call: its arguments, what it returned, and the number of
\* stored messages and whether the id was stored before it
Call(op, id, data, result, store) ==
    [op |-> op, id |-> id, data |-> data, result |-> result,
     existed |-> id \in DOMAIN store, size |-> Cardinality(DOMAIN store)]

Logged(h, call) ==
    [n |-> h.n + 1,
     last |-> IF Len(h.last) < 2 THEN Append(h.last, call) ELSE <<h.last[2], call>>]

InitRepo ==
    /\ InitCommon
    /\ settings = DefaultDebounce(TRUE, FALSE, TRUE)
    /\ conv = NoConv
    /\ msgs = EmptyMsgs
    /\ createCount = 0
    /\ req = [r \in Requests |-> NewReq("absent", 0)]

\* ensure_conversation as a whole
RepoEnsureConversation ==
    /\ hist.n < MaxCalls
    /\ conv' = IF conv.exists THEN conv ELSE DefaultConv
    /\ createCount' = IF conv.exists THEN createCount ELSE createCount + 1
    /\ hist' = Logged(hist, Call("ensure_conversation", NoId, MsgData("", "", <<>>),
                                 conv.exists, msgs))
    /\ UNCHANGED <<settings, now, msgs, req, registry, buffers, timers, cb, turn>>

RepoAddMessageIfNew ==
    /\ hist.n < MaxCalls
    /\ \E id \in RepoIds, data \in RepoData :
         LET res == AddMessageIfNew(msgs, id, data)
         IN  /\ msgs' = res.store
             /\ hist' = Logged(hist, Call("add_message_if_new", id, data, res.created, msgs))
    /\ UNCHANGED <<settings, now, conv, createCount, req, registry, buffers, timers,
                   cb, turn>>

RepoUpdateConversation ==
    /\ hist.n < MaxCalls
    /\ \E fields \in RepoFields :
         /\ conv' = UpdateConversation(conv, fields)
         /\ hist' = Logged(hist, Call("update_conversation", NoId, MsgData("", "", <<>>),
                                      TRUE, msgs))
    /\ UNCHANGED <<settings, now, msgs, createCount, req, registry, buffers, timers,
                   cb, turn>>

NextRepo ==
    \/ RepoEnsureConversation
    \/ RepoAddMessageIfNew
    \/ RepoUpdateConversation

SpecRepo == InitRepo /\ [][NextRepo]_vars

\* -------------------------------------------------------------- SpecTimed
\* The aggregation buffer manager on a clock: the requests arrive one after
\* the other at increasing times, a timer's callback runs when its delay has
\* passed (at the same instant a request may still get in first), and each
\* handler runs to its end before the next one starts.
Ticks(n) == n * UnitsPerTick

\* debounce settings (initial, extend, max) in flush ticks (tenths of a second)
TimedDebounce == {<<5, 3, 10>>, <<2, 3, 4>>, <<3, 1, 3>>}

TimedSettings ==
    {Settings(TRUE, FALSE, TRUE, Ticks(d[1]), Ticks(d[2]), Ticks(d[3])) : d \in TimedDebounce}

\* Body of a message in SpecTimed: plain, padded with a blank, or blank
TimedBodies == {<<"a">>, <<"b", " ">>, <<" ">>}

InitTimed ==
    /\ InitCommon
    /\ settings \in TimedSettings
    /\ conv = AggConv
    /\ msgs = AggMsgs
    /\ createCount = 1
    /\ \E body \in [Requests -> TimedBodies] :
         req = [r \in Requests |->
                 [NewReq("buffer", r) EXCEPT !.conv_data = DefaultConv, !.body = body[r]]]

\* _add_to_aggregation_buffer as a whole, at time now
TimedAdd(r) ==
    /\ req[r].pc = "buffer"
    /\ \A q \in Requests : q < r => req[q].pc = "done" /\ req[q].ts < now
    /\ LET b == IF registry = 0 THEN r ELSE registry
           buffer == Appended(IF registry = 0 THEN NewBuffer ELSE buffers[b], r, now)
       IN  /\ registry' = b
           /\ timers' = Rescheduled(timers, buffer, r, settings, now)
           /\ buffers' = [buffers EXCEPT ![b] = [buffer EXCEPT !.timer = r]]
           /\ req' = [req EXCEPT ![r].pc = "done", ![r].resp = 200, ![r].ts = now,
                                 ![r].buf = b]
    /\ UNCHANGED <<settings, now, conv, msgs, createCount, cb, turn, hist>>

\* _process_aggregated_messages as a whole, when the timer's delay has passed
TimedFire(t) ==
    /\ timers[t].state = "pending"
    /\ timers[t].deadline <= now
    /\ cb' = [cb EXCEPT ![t] = DoneCb]
    /\ IF registry = 0
       THEN /\ timers' = [timers EXCEPT ![t].state = "done"]
            /\ UNCHANGED <<registry, buffers, turn>>
       ELSE LET b == registry
                messages == buffers[b].messages
                first_data == buffers[b].first_data
            IN  /\ registry' = 0
                /\ timers' = [timers EXCEPT ![t].state = "done"]
                /\ IF messages = <<>> \/ first_data = 0
                   THEN UNCHANGED <<buffers, turn>>
                   ELSE /\ buffers' = [buffers EXCEPT ![b].timer = 0]
                        /\ turn' = [turn EXCEPT ![t] =
                                       HandedTurn(messages, first_data, req, now)]
    /\ UNCHANGED <<settings, now, conv, msgs, createCount, req, hist>>

\* Time passes while a timer waits; it does not pass a timer that is due.
Tick ==
    /\ \E t \in Requests : timers[t].state = "pending"
    /\ \A t \in Requests : timers[t].state = "pending" => now < timers[t].deadline
    /\ now' = now + 1
    /\ UNCHANGED <<settings, conv, msgs, createCount, req, registry, buffers,
                   timers, cb, turn, hist>>

NextTimed ==
    \/ \E r \in Requests : TimedAdd(r)
    \/ \E t \in Requests : TimedFire(t)
    \/ Tick

SpecTimed == InitTimed /\ [][NextTimed]_vars

\* ------------------------------------------------------- derived notions
Range(seq) == {seq[i] : i \in 1..Len(seq)}

\* owners whose turn has been started (process_message_async was called)
Started == {k \in Owners : turn[k].pc # "idle"}

\* the requests whose message the aggregation manager accepted (add returned True)
Accepted == {r \in Requests : req[r].pc = "done" /\ req[r].resp = 200 /\ req[r].buf # 0}

PendingTimers == {t \in Requests : timers[t].state = "pending"}

\* no request is under way, no timer is waiting, no callback is running
Quiescent ==
    /\ \A r \in Requests : req[r].pc \in {"done", "absent"}
    /\ \A t \in Requests : timers[t].state \notin {"pending", "running"}

\* messages of buffer b that no callback has taken for a turn
Unflushed(b) ==
    {r \in Range(buffers[b].messages) :
        /\ \A k \in Started : r \notin Range(turn[k].src)
        /\ \A t \in Requests : r \notin Range(cb[t].messages)}

\* buffers that hold unflushed messages
LiveBuffers == {b \in Requests : buffers[b].exists /\ Unflushed(b) # {}}

\* ----------------------------------------------------------------- claims
\* C2: under any interleaving of add calls and timer callbacks, each buffered
\* message is handed to the turn processor in at most one aggregated turn, and
\* no two turn invocations carry the same buffered messages or the same
\* aggregated turn id.
C2_HandedAtMostOnce ==
    \A k1, k2 \in Started :
        k1 # k2 =>
            /\ Range(turn[k1].src) \cap Range(turn[k2].src) = {}
            /\ turn[k1].sid # turn[k2].sid

\* C3: no message is lost: once every request has returned and every timer
\* has fired or was cancelled, every message with a non-blank body that the
\* add accepted is part of an aggregated turn handed to the turn processor.
C3_NoMessageLost ==
    Quiescent =>
        \A r \in Accepted :
            Strip(req[r].body) # <<>> => \E k \in Started : r \in Range(turn[k].src)

\* C4: at every moment at most one buffer holds the conversation's unflushed
\* messages and at most one scheduled, not yet fired, not cancelled timer
\* exists for it.
C4_SingleBufferSingleTimer ==
    /\ Cardinality(PendingTimers) <= 1
    /\ Cardinality(LiveBuffers) <= 1


\* the started turns that carry the message with MessageSid m
TurnsOf(m) == {k \in Started : \E r \in Range(turn[k].src) : req[r].sid = m}

\* C1: two deliveries of the same inbound message id, in any interleaving,
\* lead to at most one AI-backend call for that message and at most one reply
\* recorded and sent.
C1_RedeliveryOnce ==
    \A m \in Requests :
        /\ Cardinality({k \in TurnsOf(m) : turn[k].ai}) <= 1
        /\ Cardinality({k \in TurnsOf(m) : turn[k].recorded}) <= 1
        /\ Cardinality({k \in TurnsOf(m) : turn[k].sent}) <= 1

\* handle_webhook of request r got past its duplicate check and refreshed the
\* conversation metadata
Refreshed(r) ==
    \/ req[r].pc \in {"buffer", "append"}
    \/ req[r].pc = "done" /\ (req[r].buf # 0 \/ turn[ThreadOwner(r)].pc # "idle")

DeliveriesOf(m) == {r \in Requests : req[r].pc # "absent" /\ req[r].sid = m}

\* C8: a delivery whose inbound id is already recorded when it arrives only
\* reads: it is acknowledged with the empty 200 and does no metadata update,
\* no buffering and starts no turn (so no AI call, no status transition, no
\* reply); with all later deliveries of a message arriving after the first
\* one was recorded, its metadata refresh happens exactly once.
C8_RedeliveryIsNoop ==
    /\ \A r \in Requests :
         req[r].late =>
            /\ req[r].pc \in {"add_get", "done"}
            /\ req[r].pc = "done" => req[r].resp = 200
            /\ ~Refreshed(r)
            /\ req[r].buf = 0
            /\ \A b \in Requests : r \notin Range(buffers[b].messages)
            /\ \A k \in Started : r \notin Range(turn[k].src)
    /\ \A m \in Requests :
         LET first == {r \in DeliveriesOf(m) : ~req[r].late /\ req[r].resp = 200}
         IN  /\ \A r \in DeliveriesOf(m) : req[r].pc = "done"
             /\ \E r \in DeliveriesOf(m) : req[r].late
             /\ Cardinality(first) = 1
             => Cardinality({r \in DeliveriesOf(m) : Refreshed(r)}) = 1

\* C8 witness: the conversation reached pending_handoff through the first
\* delivery's turn, and a redelivery of that message was acknowledged.
C8_Witness ==
    /\ conv.status = "pending_handoff"
    /\ \E r \in Requests :
         /\ req[r].late /\ req[r].pc = "done" /\ req[r].resp = 200
         /\ \E k \in TurnsOf(req[r].sid) : turn[k].handoff /\ turn[k].sent

\* C9: the Conversation record is written with its defaults at most once per
\* conversation id, whatever the interleaving of the requests.
C9_CreatedAtMostOnce == createCount <= 1

\* the stored conversation is in no handoff state, or both overrides are on
StoredAllowsBot ==
    \/ conv.status \notin HandoffStatuses /\ ~conv.handoff_active
    \/ settings.FEATURE_DISABLE_HANDOFF /\ settings.FEATURE_FORCE_BOT_WHEN_HANDOFF_DISABLED

\* C10 as claimed: at the moment the AI backend is invoked or a reply is
\* recorded and sent, the status stored for the conversation is not a handoff
\* state, unless both overrides are on.
C10_StoredStatusAtReply ==
    [][\A k \in Owners :
          \/ (turn'[k].ai /\ ~turn[k].ai)
          \/ (turn'[k].recorded /\ ~turn[k].recorded)
          \/ (turn'[k].sent /\ ~turn[k].sent)
          => StoredAllowsBot]_vars

\* C10 as amended: a turn that invoked the AI backend or recorded or sent a
\* reply carries a snapshot that is in no handoff state, unless both
\* overrides are on.
C10_SnapshotAtReply ==
    \A k \in Started :
        turn[k].ai \/ turn[k].recorded \/ turn[k].sent
            => ~Suppressed(SnapshotOf(k), settings)

\* C10 witness: a reply was sent on a snapshot in no handoff state while the
\* stored status is pending_handoff, and handoff is enabled.
C10_Witness ==
    /\ ~settings.FEATURE_DISABLE_HANDOFF
    /\ conv.status = "pending_handoff"
    /\ \E k \in Started :
         /\ turn[k].sent /\ ~turn[k].handoff
         /\ SnapshotStatus(SnapshotOf(k)) = "bot"

\* ------------------------------------------------------ claims on the clock
\* arrival time of the i-th message of turn k
ArrivalOf(k, i) == req[turn[k].src[i]].ts

\* every message of turn k arrived no later than d after the first
WithinOf(k, d) ==
    \A i \in 1..Len(turn[k].src) : ArrivalOf(k, i) - ArrivalOf(k, 1) <= d

\* s without its leading and trailing blanks
Trimmed(s) ==
    LET idx == {i \in 1..Len(s) : s[i] # " "}
    IN  IF idx = {} THEN <<>>
        ELSE SubSeq(s, CHOOSE i \in idx : \A j \in idx : i <= j,
                       CHOOSE i \in idx : \A j \in idx : j <= i)

NonEmptyText(s) == s # <<>>

\* parts[1] | parts[2] | ... | parts[n]
RECURSIVE JoinedUpTo(_, _)
JoinedUpTo(parts, n) ==
    IF n = 0 THEN <<>>
    ELSE IF n = 1 THEN parts[1]
    ELSE JoinedUpTo(parts, n - 1) \o <<" ", "|", " ">> \o parts[n]

\* the bodies of turn k as they arrived / trimmed
BodiesOf(k) == [i \in 1..Len(turn[k].src) |-> req[turn[k].src[i]].body]
TrimmedBodiesOf(k) == [i \in 1..Len(turn[k].src) |-> Trimmed(req[turn[k].src[i]].body)]

\* the turns share no message and keep the arrival order
OneTurnEach ==
    /\ \A k \in Started : \A i, j \in 1..Len(turn[k].src) :
         i < j => ArrivalOf(k, i) < ArrivalOf(k, j)
    /\ \A k1, k2 \in Started : k1 # k2 => Range(turn[k1].src) \cap Range(turn[k2].src) = {}

C6_BoundedLatency ==
    registry # 0 =>
        now <= buffers[registry].first_ts + settings.MESSAGE_DEBOUNCE_MAX_SECONDS + FlushTick

\* ------------------------------------------------ claims on the repository
\* the last two calls were add_message_if_new with identical arguments, the
\* first of them for an id that was not stored
TwiceInSuccession ==
    /\ Len(hist.last) = 2
    /\ hist.last[1].op = "add_message_if_new"
    /\ hist.last[2].op = "add_message_if_new"
    /\ hist.last[1].id = hist.last[2].id
    /\ hist.last[1].data = hist.last[2].data
    /\ ~hist.last[1].existed

\* true, then false, and one record more than before
TrueThenFalse ==
    /\ hist.last[1].result = TRUE
    /\ hist.last[2].result = FALSE
    /\ Cardinality(DOMAIN msgs) = hist.last[1].size + 1

\* C7 as claimed: for any message id, two calls of add_message_if_new in
\* succession with identical arguments return true then false and leave
\* exactly one record.
C7_IdempotentIngestion == TwiceInSuccession => TrueThenFalse

\* C7 as amended: ... for any message id that is not empty ...
C7_IdempotentIngestionAmended ==
    TwiceInSuccession /\ hist.last[1].id # NoId =>
        /\ TrueThenFalse
        /\ hist.last[1].id \in DOMAIN msgs
        /\ msgs[hist.last[1].id] = hist.last[1].data

\* C7 witness: the outbound id of a turn was added twice in succession
C7_Witness ==
    /\ TwiceInSuccession
    /\ hist.last[1].id = OutMsgId(InboundId(1))
    /\ hist.last[2].result = FALSE

\* ------------------------------------------------------ claims on the turn
\* C11: a turn whose snapshot is in a handoff state, the overrides not both
\* on, returns at once: no AI-backend call, no outbound message recorded or
\* sent, no write to the conversation.
C11_SuppressedTurnReturns ==
    \A k \in Started :
        Suppressed(SnapshotOf(k), settings) =>
            /\ turn[k].pc \in {"gate", "done"}
            /\ ~turn[k].ai /\ ~turn[k].recorded /\ ~turn[k].sent /\ ~turn[k].raised
            /\ turn[k].writes = <<>>
            /\ turn[k].pc = "done" => OutMsgId(turn[k].sid) \notin DOMAIN msgs
            /\ conv = UpdateConversation(SnapshotOf(k), ConvUpdates(turn[k].data))

\* C11 witness: the turn of a claimed conversation has returned
C11_Witness ==
    \E k \in Started :
        /\ turn[k].pc = "done"
        /\ SnapshotStatus(SnapshotOf(k)) = "claimed"
        /\ ~settings.FEATURE_DISABLE_HANDOFF

\* every handoff parameter name: the configured one, handoff_request and
\* handoff_requested
HandoffParamNames ==
    {"handoff_request", "handoff_requested"}
    \cup (IF settings.DF_HANDOFF_PARAM THEN {"DF_HANDOFF_PARAM"} ELSE {})

\* the turn reopened the conversation before its AI call, which carried the
\* clears; a turn whose first write raised is left aside
ReopenedAndCleared(k) ==
    turn[k].pc # "gate" /\ ~(turn[k].raised /\ ~turn[k].ai) =>
        /\ turn[k].writes # <<>>
        /\ turn[k].writes[1] = BotFields
        /\ turn[k].pc = "ai" =>
              conv.status = "bot" /\ ~conv.handoff_active /\ ~conv.assignee
        /\ turn[k].ai => turn[k].cleared = HandoffParamNames

\* C12 as claimed: a turn arriving while the status is resolved writes status
\* bot (handoff_active false, assignee cleared) before the AI backend is
\* called, and its AI call carries a null clear for every handoff parameter
\* name.
C12_ResolvedReopen ==
    \A k \in Started :
        SnapshotStatus(SnapshotOf(k)) = "resolved" => ReopenedAndCleared(k)

\* C12 as amended: ... while the status is resolved and handoff_active is
\* not set ...
C12_ResolvedReopenAmended ==
    \A k \in Started :
        SnapshotStatus(SnapshotOf(k)) = "resolved" /\ ~SnapshotOf(k).handoff_active
            => ReopenedAndCleared(k)

\* C12 witness: the AI backend was called for a resolved conversation, with
\* the three clears
C12_Witness ==
    \E k \in Started :
        /\ SnapshotStatus(SnapshotOf(k)) = "resolved"
        /\ turn[k].ai
        /\ turn[k].cleared = {"DF_HANDOFF_PARAM", "handoff_request", "handoff_requested"}
        /\ turn[k].writes[1].status = "bot"

\* the turn got past the handoff decision without an exception
Decided(k) ==
    \/ turn[k].pc \in {"out_get", "out_set"}
    \/ turn[k].pc = "done" /\ ~turn[k].raised

\* C13: when the AI response requests handoff and handoff is not disabled,
\* the conversation is updated to pending_handoff with handoff_active false
\* and assignee and assignee_name cleared, and the reply is the bot's own
\* text if there is any, else the acknowledgement text, else the fallback;
\* when a line equals a hint phrase the reply is the bot's text.
C13_HandoffTransition ==
    \A k \in Started :
        turn[k].handoff /\ ~settings.FEATURE_DISABLE_HANDOFF /\ Decided(k) =>
            /\ turn[k].writes # <<>>
            /\ LET w == turn[k].writes[Len(turn[k].writes)]
               IN  /\ w.status = "pending_handoff"
                   /\ w.handoff_active = FALSE
                   /\ w.assignee = FALSE /\ w.assignee_name = FALSE
                   /\ w.pending_since = TRUE
            /\ turn[k].pc \in {"out_get", "out_set"} =>
                  /\ conv.status = "pending_handoff"
                  /\ ~conv.handoff_active /\ ~conv.assignee /\ ~conv.assignee_name
            /\ turn[k].reply =
                  IF turn[k].bot_reply_text THEN "bot_reply_text"
                  ELSE IF settings.HANDOFF_ACK_TEXT THEN "HANDOFF_ACK_TEXT"
                  ELSE "FALLBACK_STABILITY_TEXT"
            /\ turn[k].hint => turn[k].reply = "bot_reply_text"

\* C13 witness: a hint line made the conversation pending_handoff and the
\* bot's text was sent
C13_Witness ==
    \E k \in Started :
        /\ turn[k].hint /\ turn[k].handoff /\ turn[k].sent
        /\ turn[k].reply = "bot_reply_text"
        /\ settings.HANDOFF_ACK_TEXT
        /\ conv.status = "pending_handoff"

\* C14: while handoff is disabled no turn writes status pending_handoff; a
\* turn in which handoff is requested leaves the status at bot and replies
\* with the handoff-disabled text, else the bot's own text, else a generic
\* acknowledgement.
C14_DisabledHandoff ==
    settings.FEATURE_DISABLE_HANDOFF =>
        \A k \in Started :
            /\ \A i \in 1..Len(turn[k].writes) :
                 "status" \in DOMAIN turn[k].writes[i]
                    => turn[k].writes[i].status # "pending_handoff"
            /\ turn[k].pc # "handoff"
            /\ turn[k].handoff /\ Decided(k) =>
                 /\ turn[k].pc \in {"out_get", "out_set"} => conv.status = "bot"
                 /\ turn[k].reply =
                      IF settings.HANDOFF_DISABLED_TEXT THEN "HANDOFF_DISABLED_TEXT"
                      ELSE IF turn[k].bot_reply_text THEN "bot_reply_text"
                      ELSE IF settings.HANDOFF_ACK_TEXT THEN "HANDOFF_ACK_TEXT"
                      ELSE "FALLBACK_STABILITY_TEXT"

\* C14 witness: handoff is disabled, a turn in which it was requested sent
\* the handoff-disabled text and the status is bot
C14_Witness ==
    /\ settings.FEATURE_DISABLE_HANDOFF
    /\ conv.status = "bot"
    /\ \E k \in Started :
         turn[k].handoff /\ turn[k].sent /\ turn[k].reply = "HANDOFF_DISABLED_TEXT"

\* the outbound records of the store
OutRecords == {i \in DOMAIN msgs : msgs[i].direction = "out"}

\* C15: when the AI-backend call raises after its attempts, the turn records
\* one outbound message with the stability-fallback text and attempts one
\* send of it, then stops: no handoff detection, no write of pending_handoff
\* and no update of session_parameters by that turn.  (A turn whose storage
\* call raised is left aside; of two runs of a turn, the first one records.)
C15_FallbackOnce ==
    \A k \in Started :
        turn[k].cx_raised =>
            /\ ~turn[k].handoff /\ ~turn[k].hint
            /\ turn[k].pc \in {"out_get", "out_set", "done"}
            /\ \A i \in 1..Len(turn[k].writes) : turn[k].writes[i] = BotFields
            /\ turn[k].reply = "FALLBACK_STABILITY_TEXT"
            /\ turn[k].pc = "done" /\ ~turn[k].raised =>
                 /\ OutMsgId(turn[k].sid) \in DOMAIN msgs
                 /\ Cardinality(OutRecords) = 1
                 /\ turn[k].sent = turn[k].recorded
                 /\ turn[k].recorded =>
                      msgs[OutMsgId(turn[k].sid)] =
                          MsgData("out", "bot", "FALLBACK_STABILITY_TEXT")
                 /\ Started = {k} =>
                      /\ turn[k].recorded
                      /\ conv.status = "bot" /\ ~conv.session_parameters

\* C15 witness: the AI backend raised and the fallback was recorded and sent
C15_Witness ==
    \E k \in Started :
        /\ turn[k].cx_raised /\ turn[k].pc = "done"
        /\ turn[k].recorded /\ turn[k].sent
        /\ msgs[OutMsgId(turn[k].sid)].text = "FALLBACK_STABILITY_TEXT"

\* the runs of the turn processor for turn id s
RunsOf(s) == {k \in Started : turn[k].sid = s}

\* C16: the outbound id of a turn is "bot:" + its turn id, the id of an
\* aggregated turn being built from the first buffered message's id and the
\* message count; runs of the turn processor for one turn id, one after the
\* other, leave at most one outbound record and attempt at most one send,
\* whether a run ends in a normal reply or in the fallback reply.
C16_OneOutboundPerTurn ==
    \A k \in Started :
        LET s == turn[k].sid
        IN  /\ s.sid = req[turn[k].data].sid
            /\ s.agg => s.cnt = Len(turn[k].src) /\ turn[k].data = turn[k].src[1]
            /\ OutMsgId(s) = [s EXCEPT !.bot = TRUE]
            /\ Cardinality({j \in RunsOf(s) : turn[j].recorded}) <= 1
            /\ Cardinality({j \in RunsOf(s) : turn[j].sent}) <= 1
            /\ Cardinality({i \in OutRecords : i.sid = s.sid}) <= 1
            /\ turn[k].recorded => OutMsgId(s) \in OutRecords

\* C16 witness: a second run of a turn found the reply of the first one
\* recorded and sent nothing
C16_Witness ==
    \E k1, k2 \in Started :
        /\ k1 # k2 /\ turn[k1].sid = turn[k2].sid
        /\ turn[k1].pc = "done" /\ turn[k1].recorded /\ turn[k1].sent
        /\ turn[k2].pc = "done" /\ turn[k2].ai /\ ~turn[k2].raised
        /\ ~turn[k2].recorded /\ ~turn[k2].sent

\* C17: a request whose ingestion calls succeeded can always go on to its
\* empty 200: its steps wait for no turn and no callback; it returns before
\* any AI-backend call or send of its message; and no step of a turn or of a
\* timer callback, a raising one included, changes a request or its response.
C17_AckNotDelayed ==
    [][\A r \in Requests :
          /\ req[r].pc = "buffer" => ENABLED (StartThread(r) \/ GetOrCreateBuffer(r))
          /\ req[r].pc = "append" => ENABLED AppendAndSchedule(r)
          /\ req[r].pc \in {"buffer", "append"} /\ req'[r].pc = "done" =>
                /\ req'[r].resp = 200
                /\ \A k \in Owners :
                     r \in Range(turn'[k].src) =>
                        turn'[k].pc = "gate" /\ ~turn'[k].ai /\ ~turn'[k].sent
          /\ req[r].pc = "done" => req'[r] = req[r]
          /\ (\E k \in Owners : turn[k].pc # "idle" /\ turn'[k] # turn[k]) => req' = req
          /\ cb' # cb => req' = req]_vars

\* C17 witness: the request was acknowledged with 200 and its turn ended in
\* an exception
C17_Witness ==
    \E r \in Requests :
        /\ req[r].pc = "done" /\ req[r].resp = 200
        /\ \E k \in Started : r \in Range(turn[k].src) /\ turn[k].raised

\* the turn ended in an exception raised before its reply-recording step: by
\* the update_conversation of the gate (no AI-backend call was made yet) or by
\* the one of the handoff (the pending_handoff write is not among its writes)
RaisedBeforeRecording(k) ==
    /\ turn[k].pc = "done" /\ turn[k].raised /\ ~turn[k].recorded
    /\ \/ ~turn[k].ai
       \/ /\ turn[k].handoff /\ ~settings.FEATURE_DISABLE_HANDOFF
          /\ ~turn[k].cx_raised
          /\ PendingFields \notin Range(turn[k].writes)

\* C18: a turn that ended in an exception raised before its reply-recording
\* step has the stability fallback recorded as its reply.
C18_FallbackBeforeRecording ==
    \A k \in Started :
        RaisedBeforeRecording(k) =>
            /\ OutMsgId(turn[k].sid) \in DOMAIN msgs
            /\ msgs[OutMsgId(turn[k].sid)].text = "FALLBACK_STABILITY_TEXT"

\* requests that deliver again a message turn k was started for
RedeliveriesOf(k) ==
    {q \in Requests \ Range(turn[k].src) :
        /\ req[q].pc # "absent"
        /\ \E r \in Range(turn[k].src) : req[q].sid = req[r].sid}

AcceptedInbound == {r \in Requests : req[r].pc = "done" /\ req[r].resp = 200 /\ ~req[r].late}

\* the runs of process_message_async for request r that a request started
\* (the owner of a second run belongs to a request that never arrives)
RunsStartedFor(r) ==
    {k \in Started :
        /\ r \in Range(turn[k].src)
        /\ req[IF k <= NumRequests THEN k ELSE k - NumRequests].pc # "absent"}

\* with aggregation off nothing of the buffer manager exists, and an accepted
\* request has started one run, in its thread, with its own id and body
NoBufferOneRun ==
    /\ registry = 0
    /\ \A b \in Requests : buffers[b] = NoBuffer /\ timers[b] = NoTimer /\ cb[b] = IdleCb
    /\ \A r \in AcceptedInbound :
         /\ RunsStartedFor(r) = {ThreadOwner(r)}
         /\ turn[ThreadOwner(r)].sid = InboundId(req[r].sid)
         /\ turn[ThreadOwner(r)].body = req[r].body
         /\ turn[ThreadOwner(r)].src = <<r>>

\* the run has called the AI backend, recorded its reply and called
\* send_whatsapp_text for it
RepliedOnce(k) ==
    /\ turn[k].ai /\ turn[k].recorded /\ turn[k].sent
    /\ OutMsgId(turn[k].sid) \in DOMAIN msgs
    /\ msgs[OutMsgId(turn[k].sid)].text = turn[k].reply
    /\ Cardinality({i \in OutRecords : i.sid = turn[k].sid.sid}) = 1

\* C20 as stated: with aggregation off no buffer and no timer exist, an
\* accepted request starts one run with its body unchanged, and that run, once
\* it has returned without an exception, called the AI backend and recorded
\* and sent one reply.
C20_DisabledAggregation ==
    ~settings.FEATURE_MESSAGE_AGGREGATION =>
        /\ NoBufferOneRun
        /\ \A r \in AcceptedInbound :
             LET k == ThreadOwner(r)
             IN  turn[k].pc = "done" /\ ~turn[k].raised => RepliedOnce(k)

\* C20, amended: the same, for a request whose snapshot does not keep the
\* conversation with a human agent.
C20_DisabledAggregationAmended ==
    ~settings.FEATURE_MESSAGE_AGGREGATION =>
        /\ NoBufferOneRun
        /\ \A r \in AcceptedInbound :
             LET k == ThreadOwner(r)
             IN  /\ turn[k].pc = "done" /\ ~turn[k].raised
                 /\ ~Suppressed(req[r].conv_data, settings)
                 => RepliedOnce(k)

\* C20 witness: with aggregation off the run of a message whose body has
\* surrounding whitespace has recorded and sent its reply
C20_Witness ==
    /\ ~settings.FEATURE_MESSAGE_AGGREGATION
    /\ \E r \in AcceptedInbound :
         /\ req[r].body # Strip(req[r].body)
         /\ turn[ThreadOwner(r)].pc = "done"
         /\ RepliedOnce(ThreadOwner(r))

\* ------------------------------------------------- claims on the flush body
\* turns that a timer callback started from a buffer
FlushedTurns == {k \in Started : turn[k].sid.agg}

\* the bodies of the messages of turn k, in the order of the buffer
BufferedBodies(k) == [i \in 1..Len(turn[k].src) |-> req[turn[k].src[i]].body]

\* ... trimmed, those that are empty after trimming left out
TrimmedBodies(k) ==
    SelectSeq([i \in 1..Len(turn[k].src) |-> Strip(BufferedBodies(k)[i])],
              LAMBDA b : b # <<>>)

\* the buffer holds its messages in the order of their arrival
InArrivalOrder(k) ==
    \A i, j \in 1..Len(turn[k].src) :
        i < j => req[turn[k].src[i]].ts < req[turn[k].src[j]].ts

\* the first n of the bodies b with " | " between them
RECURSIVE SeparatedUpTo(_, _)
SeparatedUpTo(b, n) ==
    IF n = 0 THEN <<>>
    ELSE IF n = 1 THEN b[1]
    ELSE SeparatedUpTo(b, n - 1) \o <<" ", "|", " ">> \o b[n]

\* the trimmed bodies with " | " between them
JoinedTrimmed(k) == SeparatedUpTo(TrimmedBodies(k), Len(TrimmedBodies(k)))

\* C21 as stated: the body of a flushed turn is the body of the one buffered
\* message as it arrived, or, with several messages buffered, the bodies that
\* are not blank, in arrival order, with " | " between them.
C21_FlushBody ==
    \A k \in FlushedTurns :
        /\ InArrivalOrder(k)
        /\ IF Len(turn[k].src) = 1
           THEN turn[k].body = BufferedBodies(k)[1]
           ELSE turn[k].body = JoinedTrimmed(k)

\* C21, amended: the body of a flushed turn is made of the buffered bodies
\* trimmed of surrounding whitespace: the one that is left if one is left, and
\* otherwise those that are left, in arrival order, with " | " between them.
C21_FlushBodyAmended ==
    \A k \in FlushedTurns :
        /\ InArrivalOrder(k)
        /\ TrimmedBodies(k) # <<>>
        /\ turn[k].body = JoinedTrimmed(k)

\* C21 witness: a turn flushed from three messages, one of them blank and one
\* with a trailing blank, whose body is the two others joined
C21_Witness ==
    \E k \in FlushedTurns :
        /\ Len(turn[k].src) = 3
        /\ Len(TrimmedBodies(k)) = 2
        /\ \E i \in 1..3 : BufferedBodies(k)[i] # Strip(BufferedBodies(k)[i])
                           /\ Strip(BufferedBodies(k)[i]) # <<>>
        /\ turn[k].body = JoinedTrimmed(k)

\* ----------------------------------------------------------------- SpecCx
\* detect_intent_text alone: one call of it, with any attempts argument and
\* any outcome of each df_client.detect_intent call.  hist holds the locals of
\* the call and the outcomes of the backend calls it made, in order.

\* the exception classes of _TRANSIENT_DF_ERRORS
CxTransient ==
    {"InternalServerError", "ServiceUnavailable", "DeadlineExceeded", "Aborted",
     "ResourceExhausted"}
\* exception classes that are none of them nor a subclass of one
CxPermanent == {"InvalidArgument", "PermissionDenied"}
CxOutcomes == {"response"} \cup CxTransient \cup CxPermanent

\* the attempts argument: up to MaxCxAttempts, 0 (or None) and a negative one
MaxCxAttempts == 3
CxAttempts == (0 - 1)..MaxCxAttempts

\* attempts = max(1, int(attempts or 1))
EffectiveAttempts(attempts) ==
    LET given == IF attempts = 0 THEN 1 ELSE attempts
    IN  IF given >= 1 THEN given ELSE 1

\* the locals of detect_intent_text before the loop
CxCall(attempts) ==
    [pc |-> "call", arg |-> attempts, attempts |-> EffectiveAttempts(attempts),
     i |-> 0, last_exc |-> "none", calls |-> <<>>, result |-> "none"]

InitCx ==
    /\ now = StartTime
    /\ registry = 0
    /\ buffers = [b \in Requests |-> NoBuffer]
    /\ timers = [t \in Requests |-> NoTimer]
    /\ cb = [t \in Requests |-> IdleCb]
    /\ turn = [k \in Owners |-> IdleTurn]
    /\ settings = DefaultDebounce(TRUE, FALSE, TRUE)
    /\ conv = DefaultConv
    /\ msgs = EmptyMsgs
    /\ createCount = 0
    /\ req = [r \in Requests |-> NewReq("absent", 0)]
    /\ \E attempts \in CxAttempts : hist = CxCall(attempts)

\* a dispatcher that retries after every exception
DetectIntentRetryAll ==
    /\ hist.pc = "call"
    /\ \E outcome \in CxOutcomes :
         hist' = [hist EXCEPT
                    !.calls = Append(@, outcome),
                    !.last_exc = IF outcome = "response" THEN @ ELSE outcome,
                    !.pc = IF outcome = "response" THEN "returned"
                           ELSE IF hist.i + 1 >= hist.attempts THEN "raised"
                           ELSE "sleep",
                    !.result = IF outcome = "response" \/ hist.i + 1 >= hist.attempts
                               THEN outcome ELSE @]
    /\ UNCHANGED <<settings, now, conv, msgs, createCount, req, registry, buffers,
                   timers, cb, turn>>

\* One pass of the loop of lines 147-172: df_client.detect_intent returns and
\* the texts are returned; or it raises one of _TRANSIENT_DF_ERRORS, which is
\* kept in last_exc, and the loop is left when this was the last attempt (line
\* 175 raises last_exc); or it raises something else, which the except clause
\* does not catch.
DetectIntent ==
    /\ hist.pc = "call"
    /\ \E outcome \in CxOutcomes :
         hist' = [hist EXCEPT
                    !.calls = Append(@, outcome),
                    !.last_exc = IF outcome \in CxTransient THEN outcome ELSE @,
                    !.pc = IF outcome = "response" THEN "returned"
                           ELSE IF outcome \notin CxTransient THEN "raised"
                           ELSE IF hist.i + 1 >= hist.attempts THEN "raised"
                           ELSE "sleep",
                    !.result = IF outcome \in CxTransient /\ hist.i + 1 < hist.attempts
                               THEN @ ELSE outcome]
    /\ UNCHANGED <<settings, now, conv, msgs, createCount, req, registry, buffers,
                   timers, cb, turn>>

\* time.sleep(sleep_s) and the next value of i
DetectIntentSleep ==
    /\ hist.pc = "sleep"
    /\ hist' = [hist EXCEPT !.pc = "call", !.i = @ + 1]
    /\ UNCHANGED <<settings, now, conv, msgs, createCount, req, registry, buffers,
                   timers, cb, turn>>

NextCx == DetectIntent \/ DetectIntentSleep

SpecCx == InitCx /\ [][NextCx]_vars

\* C22: detect_intent_text calls the backend at most max(1, attempts) times;
\* every call that was followed by another one had raised a transient error;
\* an error that is not transient is raised to the caller by the call it
\* occurred in; and when all max(1, attempts) calls raised transient errors
\* the caller gets the last of them.
C22_CxRetry ==
    LET n == Len(hist.calls)
        most == IF hist.arg >= 1 THEN hist.arg ELSE 1
    IN  /\ n <= most
        /\ \A j \in 1..(n - 1) : hist.calls[j] \in CxTransient
        /\ hist.pc = "sleep" => hist.calls[n] \in CxTransient /\ n < most
        /\ hist.pc = "returned" => hist.calls[n] = "response"
        /\ hist.pc = "raised" =>
              /\ hist.result = hist.calls[n]
              /\ hist.calls[n] \in CxPermanent \/ (hist.calls[n] \in CxTransient /\ n = most)

\* C22 witness: three transient errors, the last two of different kinds, and
\* the last one raised
C22_Witness ==
    /\ hist.pc = "raised"
    /\ Len(hist.calls) = 3
    /\ hist.calls[2] # hist.calls[3]
    /\ hist.calls[3] \in CxTransient
    /\ hist.result = hist.calls[3]

\* --------------------------------------------------------------- SpecSend
\* send_whatsapp_text alone: one call of it, with or without credentials and
\* a sender, any TWILIO_POST_RETRY_ATTEMPTS and any outcome of each
\* session.post.  hist holds the locals of the call and the outcomes of the
\* POSTs it made, in order.

\* the exception classes _is_transient_post_error accepts
PostTransient == {"SSLError", "ConnectionError", "Timeout"}
\* other RequestExceptions: raise_for_status() on an error status, and one more
PostPermanent == {"HTTPError", "TooManyRedirects"}
\* an exception that is no RequestException
PostForeign == {"ValueError"}
PostOutcomes == {"ok"} \cup PostTransient \cup PostPermanent \cup PostForeign

\* TWILIO_POST_RETRY_ATTEMPTS: a value int() accepts, up to MaxPostAttempts,
\* or one it rejects
MaxPostAttempts == 3
PostAttemptSettings ==
    {[valid |-> TRUE, n |-> n] : n \in 0..MaxPostAttempts} \cup {[valid |-> FALSE, n |-> 0]}

\* the attempts _get_retry_settings falls back to
DefaultPostAttempts == 2

\* _get_retry_settings: attempts
GetRetrySettings(setting) ==
    LET attempts == IF setting.valid THEN setting.n ELSE DefaultPostAttempts
    IN  IF attempts >= 1 THEN attempts ELSE 1

\* the locals of send_whatsapp_text at its start
SendCall(creds, sender, setting) ==
    [pc |-> "check", creds |-> creds, sender |-> sender, setting |-> setting,
     attempts |-> GetRetrySettings(setting), attempt |-> 1, posts |-> <<>>,
     result |-> "none"]

InitSend ==
    /\ now = StartTime
    /\ registry = 0
    /\ buffers = [b \in Requests |-> NoBuffer]
    /\ timers = [t \in Requests |-> NoTimer]
    /\ cb = [t \in Requests |-> IdleCb]
    /\ turn = [k \in Owners |-> IdleTurn]
    /\ settings = DefaultDebounce(TRUE, FALSE, TRUE)
    /\ conv = DefaultConv
    /\ msgs = EmptyMsgs
    /\ createCount = 0
    /\ req = [r \in Requests |-> NewReq("absent", 0)]
    /\ \E creds \in BOOLEAN, sender \in BOOLEAN, setting \in PostAttemptSettings :
         hist = SendCall(creds, sender, setting)

\* lines 61-70: without credentials or without a sender nothing is posted
SendCheck ==
    /\ hist.pc = "check"
    /\ hist' = IF hist.creds /\ hist.sender
               THEN [hist EXCEPT !.pc = "post"]
               ELSE [hist EXCEPT !.pc = "returned", !.result = "False"]
    /\ UNCHANGED <<settings, now, conv, msgs, createCount, req, registry, buffers,
                   timers, cb, turn>>

\* a POST that is repeated after every RequestException
PostRetryAll ==
    /\ hist.pc = "post"
    /\ \E outcome \in PostOutcomes :
         hist' = [hist EXCEPT
                    !.posts = Append(@, outcome),
                    !.pc = IF outcome = "ok" THEN "returned"
                           ELSE IF outcome \in PostForeign THEN "raised"
                           ELSE IF hist.attempt >= hist.attempts THEN "returned"
                           ELSE "sleep",
                    !.result = IF outcome = "ok" THEN "True"
                               ELSE IF outcome \in PostForeign THEN outcome
                               ELSE IF hist.attempt >= hist.attempts THEN "False"
                               ELSE @]
    /\ UNCHANGED <<settings, now, conv, msgs, createCount, req, registry, buffers,
                   timers, cb, turn>>

\* One pass of the loop of _post_with_retry inside the try of
\* send_whatsapp_text: the POST succeeds and True is returned; or it raises a
\* RequestException, which is raised again unless it is transient and an
\* attempt is left, and which send_whatsapp_text turns into False; or it
\* raises something else, which nothing here catches.
PostWithRetry ==
    /\ hist.pc = "post"
    /\ \E outcome \in PostOutcomes :
         LET again == outcome \in PostTransient /\ hist.attempt < hist.attempts
         IN  hist' = [hist EXCEPT
                        !.posts = Append(@, outcome),
                        !.pc = IF again THEN "sleep"
                               ELSE IF outcome \in PostForeign THEN "raised"
                               ELSE "returned",
                        !.result = IF again THEN @
                                   ELSE IF outcome = "ok" THEN "True"
                                   ELSE IF outcome \in PostForeign THEN outcome
                                   ELSE "False"]
    /\ UNCHANGED <<settings, now, conv, msgs, createCount, req, registry, buffers,
                   timers, cb, turn>>

\* time.sleep(sleep_s) and the next attempt
PostSleep ==
    /\ hist.pc = "sleep"
    /\ hist' = [hist EXCEPT !.pc = "post", !.attempt = @ + 1]
    /\ UNCHANGED <<settings, now, conv, msgs, createCount, req, registry, buffers,
                   timers, cb, turn>>

NextSend == SendCheck \/ PostWithRetry \/ PostSleep

SpecSend == InitSend /\ [][NextSend]_vars

\* C23: send_whatsapp_text makes at most the configured number of POSTs, one
\* when the configured number is below one; every POST that was followed by
\* another one had raised a TLS error, a connection error or a timeout; and a
\* call whose last POST raised one of these or any other RequestException
\* (an error status among them) has returned False and has not raised.
C23_SendRetry ==
    LET n == Len(hist.posts)
        most == IF ~hist.setting.valid THEN DefaultPostAttempts
                ELSE IF hist.setting.n >= 1 THEN hist.setting.n ELSE 1
    IN  /\ n <= most
        /\ \A j \in 1..(n - 1) : hist.posts[j] \in PostTransient
        /\ hist.pc = "sleep" => hist.posts[n] \in PostTransient /\ n < most
        /\ hist.pc \in {"returned", "raised"} /\ n > 0 =>
              /\ hist.posts[n] \in PostTransient => n = most
              /\ hist.posts[n] \in PostTransient \cup PostPermanent =>
                    hist.pc = "returned" /\ hist.result = "False"
              /\ hist.posts[n] = "ok" => hist.pc = "returned" /\ hist.result = "True"
        /\ hist.pc = "raised" => n > 0 /\ hist.posts[n] \in PostForeign

\* C23 witness: a transient error, then an error status, and False returned
\* with an attempt left
C23_Witness ==
    /\ hist.pc = "returned" /\ hist.result = "False"
    /\ hist.attempts = 3
    /\ hist.posts = <<"Timeout", "HTTPError">>

\* ------------------------------------------------ claims on stored messages
\* C24: a message record that exists stays, with its text, direction and by
\* fields, through every step of the requests and the turns.
C24_MessageImmutable ==
    [][\A i \in DOMAIN msgs :
          /\ i \in DOMAIN msgs'
          /\ msgs'[i].text = msgs[i].text
          /\ msgs'[i].direction = msgs[i].direction
          /\ msgs'[i].by = msgs[i].by]_vars

\* ------------------------------------------------ claims on the flush window
\* C25: once a timer callback has taken the messages of a buffer, no add
\* appends to that buffer.
C25_NoAppendAfterTake ==
    [][\A t \in Requests :
          cb[t].pc = "clear" =>
              buffers'[cb[t].buf].messages = buffers[cb[t].buf].messages]_vars

\* the buffer a timer was scheduled for: the one its request appended to
OwnBuffer(t) == req[t].buf

\* C26: a timer callback takes the messages of no buffer but the one its
\* timer was scheduled for; a callback whose buffer is gone from the registry
\* does nothing to a newer buffer.
C26_StaleTimerNoop ==
    \A t \in Requests :
        cb[t].pc \in {"lock", "clear"} => cb[t].buf = OwnBuffer(t)

\* ------------------------------------------------------ claims on the delay
\* requests whose message an add has appended to a buffer
Added == {r \in Requests : req[r].pc = "done" /\ req[r].buf # 0}

\* the first message of the buffer that request r appended to
FirstOf(r) == buffers[req[r].buf].messages[1]

\* time between the arrival of the buffer's first message and that of r
Elapsed(r) == req[r].ts - req[FirstOf(r)].ts

\* the delay the claim gives for the add of request r
ClaimedDelay(r) ==
    LET remaining == settings.MESSAGE_DEBOUNCE_MAX_SECONDS - Elapsed(r)
    IN  IF remaining <= 0 THEN FlushTick
        ELSE IF FirstOf(r) = r
             THEN Min(settings.MESSAGE_DEBOUNCE_INITIAL_SECONDS, remaining)
             ELSE Min(settings.MESSAGE_DEBOUNCE_EXTEND_SECONDS, remaining)

\* C27: the timer an add schedules is due after the flush tick when max minus
\* elapsed is not positive, after min(initial, max - elapsed) for the first
\* message of the buffer and after min(extend, max - elapsed) for a later one,
\* elapsed counted from the arrival of the buffer's first message, which the
\* buffer keeps as first_ts as long as it lives.
C27_DelayFormula ==
    \A r \in Added :
        /\ timers[r].deadline - req[r].ts = ClaimedDelay(r)
        /\ buffers[req[r].buf].first_ts = req[FirstOf(r)].ts

\* C27 witness: the three cases in one buffer: the first message, a later one
\* cut by what is left to max, and one that arrives with nothing left
C27_Witness ==
    \E r1, r2, r3 \in Added :
        /\ req[r1].buf = req[r2].buf /\ req[r2].buf = req[r3].buf
        /\ FirstOf(r1) = r1
        /\ timers[r1].deadline - req[r1].ts = settings.MESSAGE_DEBOUNCE_INITIAL_SECONDS
        /\ r2 # r1
        /\ settings.MESSAGE_DEBOUNCE_MAX_SECONDS - Elapsed(r2) > 0
        /\ timers[r2].deadline - req[r2].ts = settings.MESSAGE_DEBOUNCE_MAX_SECONDS - Elapsed(r2)
        /\ timers[r2].deadline - req[r2].ts < settings.MESSAGE_DEBOUNCE_EXTEND_SECONDS
        /\ settings.MESSAGE_DEBOUNCE_MAX_SECONDS - Elapsed(r3) <= 0
        /\ timers[r3].deadline - req[r3].ts = FlushTick

\* ---------------------------------------------- claims on the state machine
\* the edges the turn processor may take, under the settings of the run
StatusEdges ==
    {<<"resolved", "bot">>, <<"bot", "pending_handoff">>}
    \cup (IF settings.FEATURE_DISABLE_HANDOFF
             /\ settings.FEATURE_FORCE_BOT_WHEN_HANDOFF_DISABLED
          THEN {<<s, "bot">> : s \in HandoffStatuses}
          ELSE {})

\* C28: a step of a turn that changes the stored status of the conversation
\* takes it along an edge of the state machine, from the status that is stored
\* when the step is taken.
C28_StoredStatusEdges ==
    [][(\E k \in Owners : turn'[k] # turn[k]) /\ conv'.status # conv.status
          => <<conv.status, conv'.status>> \in StatusEdges]_vars

\* ------------------------------------------------------------ SpecHandoff
\* _handoff_from_cx alone: one call of it, with the text lines and the
\* parameter value of any response, with and without configured hints and
\* parameter name, for a turn whose status is "bot" or something else.  hist
\* holds the arguments of the call and what it returned.

\* str.lower() and str.casefold() on the letters that occur
Lower(ch) ==
    CASE ch = "A" -> "a" [] ch = "B" -> "b" [] ch = "T" -> "t" [] ch = "R" -> "r"
      [] ch = "U" -> "u" [] ch = "E" -> "e" [] OTHER -> ch

CaseFold(text) == [i \in 1..Len(text) |-> Lower(text[i])]

\* text.split(): the maximal runs of characters that are not whitespace
RECURSIVE WordLen(_)
WordLen(text) ==
    IF text = <<>> \/ IsSpace(Head(text)) THEN 0 ELSE 1 + WordLen(Tail(text))

RECURSIVE Split(_)
Split(text) ==
    LET t == LStrip(text)
    IN  IF t = <<>> THEN <<>>
        ELSE <<SubSeq(t, 1, WordLen(t))>> \o Split(SubSeq(t, WordLen(t) + 1, Len(t)))

\* " ".join(words)
RECURSIVE JoinSpace(_)
JoinSpace(words) ==
    IF words = <<>> THEN <<>>
    ELSE IF Len(words) = 1 THEN words[1]
    ELSE words[1] \o <<" ">> \o JoinSpace(Tail(words))

\* _normalize_for_exact_match
NormalizeForExactMatch(text) == CaseFold(JoinSpace(Split(text)))

\* Python values of a session parameter, all of one shape: kind, the bool, the
\* characters of the str, the values of the dict or the elements of the list
PyValue(kind, b, str, items) == [kind |-> kind, b |-> b, str |-> str, items |-> items]
PyNone == PyValue("none", FALSE, <<>>, <<>>)
PyBool(b) == PyValue("bool", b, <<>>, <<>>)
PyStr(str) == PyValue("str", FALSE, str, <<>>)
\* a number other than zero
PyNumber == PyValue("number", FALSE, <<>>, <<>>)
PyDict(items) == PyValue("dict", FALSE, <<>>, items)
PyList(items) == PyValue("list", FALSE, <<>>, items)

\* bool(value) of Python: what a plain truth test would accept
IsTruthyPython(value) ==
    CASE value.kind = "bool" -> value.b
      [] value.kind = "str" -> value.str # <<>>
      [] value.kind = "number" -> TRUE
      [] value.kind \in {"dict", "list"} -> value.items # <<>>
      [] OTHER -> FALSE

\* _is_truthy
RECURSIVE IsTruthy(_)
IsTruthy(value) ==
    CASE value.kind = "none" -> FALSE
      [] value.kind = "bool" -> value.b
      [] value.kind = "str" -> CaseFold(Strip(value.str)) = <<"t", "r", "u", "e">>
      [] value.kind = "dict" -> \E i \in 1..Len(value.items) : IsTruthy(value.items[i])
      [] OTHER -> FALSE

\* _handoff_from_cx: texts are the lines of the response, value is
\* cx_all_params_dict(resp).get(key), None when the key is absent
HandoffFromCxResp(texts, value, allow_param, hints, key) ==
    \/ \E i \in 1..Len(texts) : \E hint \in hints :
          hint # <<>> /\ NormalizeForExactMatch(texts[i]) = hint
    \/ allow_param /\ key /\ IsTruthy(value)

\* the hint phrases configured (DF_HANDOFF_TEXT_HINTS is trimmed, case-folded
\* and without empty entries): none, or "a b"
HintPhrase == <<"a", " ", "b">>
HintSettings == {{}, {HintPhrase}}

\* lines of a response: the hint, the hint in other case and spacing, a line
\* without the blank, a line that contains the hint, an empty line
HandoffLines ==
    {HintPhrase, <<" ", "A", " ", " ", "B", " ">>, <<"a", "b">>,
     <<"a", " ", "b", " ", "a">>, <<>>}

\* a response has up to MaxLines lines
MaxLines == 2
HandoffTexts == UNION {[1..n -> HandoffLines] : n \in 0..MaxLines}

\* values of the parameter: the scalars, and dicts and lists of them, the
\* dicts nested once
ParamScalars ==
    {PyNone, PyBool(TRUE), PyBool(FALSE), PyNumber,
     PyStr(<<"t", "r", "u", "e">>), PyStr(<<"T", "r", "U", "E">>),
     PyStr(<<" ", "t", "r", "u", "e", " ">>), PyStr(<<"t", "r", "u", "e", "r">>),
     PyStr(<<>>)}
ParamDicts ==
    {PyDict(<<>>)} \cup {PyDict(<<v>>) : v \in ParamScalars}
    \cup {PyDict(<<PyBool(FALSE), v>>) : v \in ParamScalars}
ParamValues ==
    ParamScalars \cup ParamDicts \cup {PyDict(<<PyStr(<<>>), d>>) : d \in ParamDicts}
    \cup {PyList(<<PyBool(TRUE)>>)}

\* the status the turn holds at line 667: "bot", or a string the gate and the
\* reopening do not know
LateStatuses == {"bot", "archived"}

HandoffCall(texts, value, status, key, hints) ==
    [pc |-> "call", texts |-> texts, value |-> value, status |-> status, key |-> key,
     hints |-> hints, result |-> FALSE]

InitHandoff ==
    /\ now = StartTime
    /\ registry = 0
    /\ buffers = [b \in Requests |-> NoBuffer]
    /\ timers = [t \in Requests |-> NoTimer]
    /\ cb = [t \in Requests |-> IdleCb]
    /\ turn = [k \in Owners |-> IdleTurn]
    /\ settings = DefaultDebounce(TRUE, FALSE, TRUE)
    /\ conv = DefaultConv
    /\ msgs = EmptyMsgs
    /\ createCount = 0
    /\ req = [r \in Requests |-> NewReq("absent", 0)]
    /\ \E texts \in HandoffTexts, value \in ParamValues, status \in LateStatuses,
          key \in BOOLEAN, hints \in HintSettings :
         hist = HandoffCall(texts, value, status, key, hints)

\* lines 667-668: allow_handoff_param and the call of _handoff_from_cx
HandoffDecision ==
    /\ hist.pc = "call"
    /\ LET allow_handoff_param == hist.status = "bot" /\ hist.key
       IN  hist' = [hist EXCEPT
                      !.pc = "returned",
                      !.result = HandoffFromCxResp(hist.texts, hist.value,
                                                   allow_handoff_param, hist.hints,
                                                   hist.key)]
    /\ UNCHANGED <<settings, now, conv, msgs, createCount, req, registry, buffers,
                   timers, cb, turn>>

NextHandoff == HandoffDecision

SpecHandoff == InitHandoff /\ [][NextHandoff]_vars

\* ------------------------------------------- claims on the handoff decision
\* condition (a): a line of the response, whitespace-normalized and
\* case-folded, equals a configured hint phrase
HintMatched ==
    \E i \in 1..Len(hist.texts) : NormalizeForExactMatch(hist.texts[i]) \in hist.hints

\* truthy as the claim has it: boolean true, the string "true" in any case,
\* or a mapping that contains a truthy value
RECURSIVE TruthyAsClaimed(_)
TruthyAsClaimed(value) ==
    \/ value.kind = "bool" /\ value.b
    \/ value.kind = "str" /\ CaseFold(value.str) = <<"t", "r", "u", "e">>
    \/ value.kind = "dict" /\ \E i \in 1..Len(value.items) : TruthyAsClaimed(value.items[i])

\* ... and with the string trimmed of surrounding whitespace first
RECURSIVE TruthyTrimmed(_)
TruthyTrimmed(value) ==
    \/ value.kind = "bool" /\ value.b
    \/ value.kind = "str" /\ CaseFold(Strip(value.str)) = <<"t", "r", "u", "e">>
    \/ value.kind = "dict" /\ \E i \in 1..Len(value.items) : TruthyTrimmed(value.items[i])

\* C29 as stated: handoff is requested exactly when a line matches a hint, or
\* the status is bot, a parameter name is configured and the value under it
\* is boolean true, the string "true" in any case or a mapping that contains
\* such a value.
C29_HandoffRequested ==
    hist.pc = "returned" =>
        (hist.result <=>
            \/ HintMatched
            \/ hist.status = "bot" /\ hist.key /\ TruthyAsClaimed(hist.value))

\* C29, amended: the same, where the string "true" may also have whitespace
\* around it; with the status not bot a truthy value alone requests nothing.
C29_HandoffRequestedAmended ==
    hist.pc = "returned" =>
        /\ hist.result <=>
              \/ HintMatched
              \/ hist.status = "bot" /\ hist.key /\ TruthyTrimmed(hist.value)
        /\ hist.status # "bot" /\ ~HintMatched => ~hist.result

\* C29 witness: no line matches, the status is bot, and the value is a mapping
\* that holds a mapping that holds "TrUE": handoff is requested
C29_Witness ==
    /\ hist.pc = "returned" /\ hist.result
    /\ ~HintMatched /\ hist.status = "bot"
    /\ hist.value = PyDict(<<PyStr(<<>>), PyDict(<<PyStr(<<"T", "r", "U", "E">>)>>)>>)

\* ------------------------------------------- claims on the forced conversion
\* the snapshot of the turn is in a handoff state and both overrides are on
ForcedToBot(k) ==
    /\ SnapshotStatus(SnapshotOf(k)) \in HandoffStatuses \/ SnapshotOf(k).handoff_active
    /\ settings.FEATURE_DISABLE_HANDOFF
    /\ settings.FEATURE_FORCE_BOT_WHEN_HANDOFF_DISABLED

\* C30: a turn whose snapshot is in a handoff state while handoff is disabled
\* and force-bot is on first writes status bot, handoff_active false and the
\* assignee cleared, goes on as a bot turn to the AI backend, never writes
\* pending_handoff, and when it returns its reply is recorded and was sent
\* once; a turn whose forced write raised is left aside, and so is the reply
\* of a turn when a storage call or the send raised in a run of it.
C30_ForcedConversion ==
    \A k \in Started :
        ForcedToBot(k) /\ turn[k].pc # "gate" /\ ~(turn[k].raised /\ ~turn[k].ai) =>
            /\ turn[k].writes # <<>>
            /\ turn[k].writes[1] = BotFields
            /\ turn[k].status = "bot"
            /\ turn[k].pc = "ai" =>
                 conv.status = "bot" /\ ~conv.handoff_active /\ ~conv.assignee
            /\ turn[k].pc # "handoff"
            /\ \A i \in 1..Len(turn[k].writes) :
                 "status" \in DOMAIN turn[k].writes[i] => turn[k].writes[i].status = "bot"
            /\ turn[k].pc = "done" => turn[k].ai
            /\ turn[k].pc = "done" /\ ~turn[k].raised =>
                 /\ OutMsgId(turn[k].sid) \in DOMAIN msgs
                 /\ (\A j \in RunsOf(turn[k].sid) : ~turn[j].raised) =>
                      Cardinality({j \in RunsOf(turn[k].sid) : turn[j].sent}) = 1

\* C30 witness: the turn of a claimed conversation with an assignee, both
\* overrides on, has sent its reply and the stored status is bot
C30_Witness ==
    \E k \in Started :
        /\ ForcedToBot(k)
        /\ SnapshotStatus(SnapshotOf(k)) = "claimed" /\ SnapshotOf(k).assignee
        /\ turn[k].pc = "done" /\ turn[k].sent /\ ~turn[k].raised
        /\ conv.status = "bot" /\ ~conv.handoff_active /\ ~conv.assignee

\* ------------------------------------------------- claims on record and send
\* the turn's send was attempted and send_whatsapp_text returned False
SendFailed(k) == turn[k].sent /\ ~turn[k].success

\* a step in which run k attempts its send
SendsNow(k) == turn'[k].sent /\ ~turn[k].sent

\* C31: a turn whose send was attempted has its reply recorded under its
\* outbound id; a send is attempted only in the step that creates that
\* record, which did not exist before; and after a failed send the record
\* stays as it is and no run of the turn attempts a send again.
C31_RecordThenSend ==
    /\ [](\A k \in Started :
            turn[k].sent =>
                /\ turn[k].recorded
                /\ OutMsgId(turn[k].sid) \in DOMAIN msgs
                /\ msgs[OutMsgId(turn[k].sid)] = MsgData("out", "bot", turn[k].reply))
    /\ [][\A k \in Owners :
            /\ SendsNow(k) =>
                 /\ OutMsgId(turn[k].sid) \notin DOMAIN msgs
                 /\ OutMsgId(turn[k].sid) \in DOMAIN msgs'
            /\ SendFailed(k) =>
                 /\ OutMsgId(turn[k].sid) \in DOMAIN msgs'
                 /\ msgs'[OutMsgId(turn[k].sid)] = msgs[OutMsgId(turn[k].sid)]
                 /\ \A j \in Owners :
                      turn'[j].pc # "idle" /\ turn'[j].sid = turn[k].sid => ~SendsNow(j)]_vars

\* C31 witness: the send of a turn failed, its reply is recorded, and a second
\* run of the turn has returned without a send
C31_Witness ==
    \E k, j \in Started :
        /\ k # j /\ turn[j].sid = turn[k].sid
        /\ turn[k].pc = "done" /\ SendFailed(k) /\ turn[k].recorded
        /\ turn[j].pc = "done" /\ ~turn[j].sent /\ ~turn[j].raised
        /\ OutMsgId(turn[k].sid) \in DOMAIN msgs

\* ------------------------------------------------------------- SpecParams
\* The stored session_parameters as a map, over the turns of a conversation:
\* each turn's AI call returns a parameter map, and a map that is not empty is
\* written with update_conversation(session_parameters=params_dict), that is
\* with DocumentReference.set({"session_parameters": params_dict,
\* "updated_at": ...}, merge=True).  hist holds the stored map, the map
\* returned last, and the number of turns.

\* the parameter names and values that occur
ParamKeys == {"user_name", "topic", "handoff_request"}
ParamVals == {"x", "y"}

\* the maps of some of the names to values
ParamMaps == UNION {[keys -> ParamVals] : keys \in SUBSET ParamKeys}

\* the conversation has up to MaxTurns turns
MaxTurns == 2

\* DocumentReference.set(fields, merge=True) on a map field: the update mask
\* holds the path of every leaf of fields, so each key given is written and
\* each stored key that is not given stays
SetMerge(stored, fields) ==
    [key \in DOMAIN stored \cup DOMAIN fields |->
        IF key \in DOMAIN fields THEN fields[key] ELSE stored[key]]

InitParams ==
    /\ now = StartTime
    /\ registry = 0
    /\ buffers = [b \in Requests |-> NoBuffer]
    /\ timers = [t \in Requests |-> NoTimer]
    /\ cb = [t \in Requests |-> IdleCb]
    /\ turn = [k \in Owners |-> IdleTurn]
    /\ settings = DefaultDebounce(TRUE, FALSE, TRUE)
    /\ conv = DefaultConv
    /\ msgs = EmptyMsgs
    /\ createCount = 0
    /\ req = [r \in Requests |-> NewReq("absent", 0)]
    /\ \E stored \in ParamMaps :
         hist = [stored |-> stored, before |-> stored, returned |-> <<>>, turns |-> 0]

\* lines 643-650: params_dict = cx_all_params_dict(resp); if params_dict:
\* repo.update_conversation(conversation_id, session_parameters=params_dict)
SaveSessionParameters ==
    /\ hist.turns < MaxTurns
    /\ \E params_dict \in ParamMaps :
         hist' = [stored |-> IF DOMAIN params_dict # {}
                             THEN SetMerge(hist.stored, params_dict)
                             ELSE hist.stored,
                  before |-> hist.stored,
                  returned |-> params_dict,
                  turns |-> hist.turns + 1]
    /\ UNCHANGED <<settings, now, conv, msgs, createCount, req, registry, buffers,
                   timers, cb, turn>>

NextParams == SaveSessionParameters

SpecParams == InitParams /\ [][NextParams]_vars

\* C32: after an AI call that returned parameters, the stored
\* session_parameters is exactly the returned map: no key of the map stored
\* before is left unless the backend returned it.
C32_ParamsReplaced ==
    hist.turns > 0 /\ DOMAIN hist.returned # {} => hist.stored = hist.returned

\* -------------------------------------------------------------- SpecAudio
\* The transcription step of process_message_async (lines 570-641) for one
\* turn: whether a speech client was passed in, the settings, the media of
\* the turn and its body, and what transcribe_twilio_audio returned.  A body
\* is a sequence of pieces of text.  hist holds the locals of the turn, the
\* fields the step stored and the body the AI backend was called with.

\* the methods FirestoreRepository defines
RepoMethods == {"ensure_conversation", "add_message_if_new", "update_conversation"}

\* the piece extract_inbound_request puts for an audio without a body
AudioPlaceholder == "[Audio]"
\* the label _merge_audio_transcript puts before an appended transcript
TranscriptLabel == "\n\n[Transcricao de audio] "

\* a merge that appends the labelled transcript whatever the body holds
MergeAudioAppended(body, transcript) == body \o <<TranscriptLabel, transcript>>

\* _merge_audio_transcript
MergeAudioTranscript(body, transcript) ==
    IF \E i \in 1..Len(body) : body[i] = AudioPlaceholder
    THEN [i \in 1..Len(body) |-> IF body[i] = AudioPlaceholder THEN transcript ELSE body[i]]
    ELSE IF body # <<>>
    THEN body \o <<TranscriptLabel, transcript>>
    ELSE <<transcript>>

\* bodies of a turn with media: the placeholder alone, a caption, and the
\* aggregated body of an audio followed by a text
AudioBodies ==
    {<<AudioPlaceholder>>, <<"caption">>, <<AudioPlaceholder, " | ", "text">>}

\* MediaContentType0 of the turn: an audio, an image, or no media
MediaTypes == {"audio/ogg", "image/jpeg", "none"}

\* is_audio_media_type
IsAudioMediaType(media_type) == media_type = "audio/ogg"

\* what transcribe_twilio_audio returns: the transcript, or "" when the
\* download or the recognition failed or nothing was recognised
Transcripts == {"transcript", ""}

AudioTurn(speech_client, feature, media_type, body, fallback) ==
    [pc |-> "start", speech_client |-> speech_client, feature |-> feature,
     media_type |-> media_type, original |-> body, body |-> body,
     fallback |-> fallback, attempted |-> FALSE, transcript |-> "",
     transcription |-> "", last_message_text |-> body, ai_body |-> <<>>]

InitAudio ==
    /\ now = StartTime
    /\ registry = 0
    /\ buffers = [b \in Requests |-> NoBuffer]
    /\ timers = [t \in Requests |-> NoTimer]
    /\ cb = [t \in Requests |-> IdleCb]
    /\ turn = [k \in Owners |-> IdleTurn]
    /\ settings = DefaultDebounce(TRUE, FALSE, TRUE)
    /\ conv = DefaultConv
    /\ msgs = EmptyMsgs
    /\ createCount = 0
    /\ req = [r \in Requests |-> NewReq("absent", 0)]
    /\ \E speech_client \in BOOLEAN, feature \in BOOLEAN, media_type \in MediaTypes,
          body \in AudioBodies, fallback \in {"STT_FALLBACK_TEXT", ""} :
         hist = AudioTurn(speech_client, feature, media_type, body, fallback)

\* lines 570-629: the transcription and the merge of its result or of the
\* fallback phrase
AudioTranscribe ==
    /\ hist.pc = "start"
    /\ IF /\ hist.speech_client
          /\ hist.feature
          /\ hist.media_type # "none"
          /\ IsAudioMediaType(hist.media_type)
       THEN \E transcript \in Transcripts :
              hist' = [hist EXCEPT
                         !.attempted = TRUE,
                         !.transcript = transcript,
                         !.body = IF transcript # ""
                                  THEN MergeAudioTranscript(hist.body, transcript)
                                  ELSE IF hist.fallback # ""
                                  THEN MergeAudioTranscript(hist.body, hist.fallback)
                                  ELSE hist.body,
                         !.pc = IF transcript # "" THEN "persist" ELSE "ai"]
       ELSE hist' = [hist EXCEPT !.pc = "ai"]
    /\ UNCHANGED <<settings, now, conv, msgs, createCount, req, registry, buffers,
                   timers, cb, turn>>

\* lines 600-620: repo.update_message(..., transcription=transcript, ...) in a
\* try whose handler logs a warning (the repository has no such method: the
\* call raises AttributeError), then update_conversation(last_message_text=
\* body), which writes or raises and is logged
AudioPersist ==
    /\ hist.pc = "persist"
    /\ \E written \in BOOLEAN :
         hist' = [hist EXCEPT
                    !.transcription = IF "update_message" \in RepoMethods
                                      THEN hist.transcript ELSE @,
                    !.last_message_text = IF written THEN hist.body ELSE @,
                    !.pc = "ai"]
    /\ UNCHANGED <<settings, now, conv, msgs, createCount, req, registry, buffers,
                   timers, cb, turn>>

\* line 632: detect_intent_text is called with the body
AudioDetect ==
    /\ hist.pc = "ai"
    /\ hist' = [hist EXCEPT !.pc = "called", !.ai_body = hist.body]
    /\ UNCHANGED <<settings, now, conv, msgs, createCount, req, registry, buffers,
                   timers, cb, turn>>

NextAudio == AudioTranscribe \/ AudioPersist \/ AudioDetect

SpecAudio == InitAudio /\ [][NextAudio]_vars

\* -------------------------------------------------- claims on transcription
\* the body with every placeholder replaced by the text
PlaceholderReplaced(body, text) ==
    [i \in 1..Len(body) |-> IF body[i] = AudioPlaceholder THEN text ELSE body[i]]

HasPlaceholder(body) == \E i \in 1..Len(body) : body[i] = AudioPlaceholder

\* the text merged into the body: in the place of the placeholder, or
\* appended with the label
MergedInto(body, text) ==
    IF HasPlaceholder(body) THEN PlaceholderReplaced(body, text)
    ELSE body \o <<TranscriptLabel, text>>

\* C33: when a turn with an audio and transcription enabled got a transcript,
\* the body the AI backend is called with is the turn's body with the
\* transcript merged in, and the stored inbound message holds the transcript.
C33_TranscriptMergedAndStored ==
    hist.pc = "called" /\ hist.attempted /\ hist.transcript # "" =>
        /\ hist.ai_body = MergedInto(hist.original, hist.transcript)
        /\ hist.transcription = hist.transcript

\* C34 as stated: when the transcription of a turn gave nothing, the AI
\* backend is still called, with the turn's body as it was or, with a
\* fallback phrase configured, with the placeholder replaced by the phrase.
C34_TranscriptionFailure ==
    hist.attempted /\ hist.transcript = "" =>
        /\ hist.pc \in {"ai", "called"}
        /\ hist.pc = "called" =>
             hist.ai_body = IF hist.fallback # ""
                            THEN PlaceholderReplaced(hist.original, hist.fallback)
                            ELSE hist.original

\* C34, amended: ... or, with a fallback phrase configured, with the phrase
\* merged in as a transcript is: in the place of the placeholder if the body
\* has one, else appended with the label.
C34_TranscriptionFailureAmended ==
    hist.attempted /\ hist.transcript = "" =>
        /\ hist.pc \in {"ai", "called"}
        /\ hist.pc = "called" =>
             hist.ai_body = IF hist.fallback # ""
                            THEN MergedInto(hist.original, hist.fallback)
                            ELSE hist.original
        /\ hist.transcription = "" /\ hist.last_message_text = hist.original

\* C34 witness: the transcription of a captioned audio gave nothing, a
\* fallback phrase is configured, and the AI backend was called
C34_Witness ==
    /\ hist.pc = "called" /\ hist.attempted /\ hist.transcript = ""
    /\ hist.fallback # "" /\ ~HasPlaceholder(hist.original)
    /\ hist.ai_body = hist.original \o <<TranscriptLabel, hist.fallback>>

\* ---------------------------------------------------------------- SpecIds
\* extract_inbound_request's two identifiers (lines 151-152) for one payload.
\* The From field is a sequence of pieces: the channel prefix, a plus sign, a
\* digit, a blank.  hist holds the field and the two identifiers.

FromPieces == {"whatsapp:", "+", "5", " "}

\* a From field has up to MaxFromLen pieces
MaxFromLen == 3
FromFields == UNION {[1..n -> FromPieces] : n \in 0..MaxFromLen}

\* the values str(uuid.uuid4()) can give
Uuids == {"uuid-a", "uuid-b"}

\* from_field.replace("whatsapp:", "").replace("+", "").strip()
StrippedFrom(from_field) ==
    Strip(SelectSeq(from_field, LAMBDA piece : piece \notin {"whatsapp:", "+"}))

\* _session_id_from_from_field, given the value uuid4 gives in this call
SessionIdFromFromField(from_field, uuid) ==
    IF from_field = <<>> THEN <<uuid>>
    ELSE IF StrippedFrom(from_field) # <<>> THEN StrippedFrom(from_field)
    ELSE <<uuid>>

\* _conversation_id_e164, with its own call of _session_id_from_from_field
ConversationIdE164(from_field, uuid) ==
    LET sid == SessionIdFromFromField(from_field, uuid)
    IN  IF sid # <<>> /\ Head(sid) # "+" THEN <<"+">> \o sid ELSE sid

InitIds ==
    /\ now = StartTime
    /\ registry = 0
    /\ buffers = [b \in Requests |-> NoBuffer]
    /\ timers = [t \in Requests |-> NoTimer]
    /\ cb = [t \in Requests |-> IdleCb]
    /\ turn = [k \in Owners |-> IdleTurn]
    /\ settings = DefaultDebounce(TRUE, FALSE, TRUE)
    /\ conv = DefaultConv
    /\ msgs = EmptyMsgs
    /\ createCount = 0
    /\ req = [r \in Requests |-> NewReq("absent", 0)]
    /\ \E from_field \in FromFields :
         hist = [pc |-> "conversation_id", frm |-> from_field,
                 conversation_id |-> <<>>, session_id |-> <<>>]

\* line 151: conversation_id = _conversation_id_e164(frm)
DeriveConversationId ==
    /\ hist.pc = "conversation_id"
    /\ \E uuid \in Uuids :
         hist' = [hist EXCEPT !.pc = "session_id",
                              !.conversation_id = ConversationIdE164(hist.frm, uuid)]
    /\ UNCHANGED <<settings, now, conv, msgs, createCount, req, registry, buffers,
                   timers, cb, turn>>

\* line 152: session_id = _session_id_from_from_field(frm)
DeriveSessionId ==
    /\ hist.pc = "session_id"
    /\ \E uuid \in Uuids :
         hist' = [hist EXCEPT !.pc = "derived",
                              !.session_id = SessionIdFromFromField(hist.frm, uuid)]
    /\ UNCHANGED <<settings, now, conv, msgs, createCount, req, registry, buffers,
                   timers, cb, turn>>

NextIds == DeriveConversationId \/ DeriveSessionId

SpecIds == InitIds /\ [][NextIds]_vars

\* C35: for every sender address, the empty one included, the conversation id
\* is the session id with a single "+" before it.
C35_ConversationIdOfSessionId ==
    hist.pc = "derived" =>
        /\ hist.conversation_id = <<"+">> \o hist.session_id
        /\ hist.session_id # <<>> /\ Head(hist.session_id) # "+"

\* ------------------------------------------------ claims on written statuses
\* the status values the core writes
WrittenStatuses == {"bot", "pending_handoff"}

\* C36: whenever the stored status changes it becomes bot or pending_handoff,
\* every status a turn writes is one of the two, and a conversation that is
\* created starts with status bot.
C36_WrittenStatuses ==
    /\ [](\A k \in Started : \A i \in 1..Len(turn[k].writes) :
            "status" \in DOMAIN turn[k].writes[i]
                => turn[k].writes[i].status \in WrittenStatuses)
    /\ [][/\ conv'.status # conv.status => conv'.status \in WrittenStatuses
          /\ ~conv.exists /\ conv'.exists =>
                conv'.status = "bot" /\ ~conv'.handoff_active]_vars

\* C36 witness: the conversation was created by the program and a turn has
\* written pending_handoff
C36_Witness ==
    /\ createCount > 0
    /\ conv.status = "pending_handoff"
    /\ \E k \in Started : \E i \in 1..Len(turn[k].writes) :
         turn[k].writes[i] = PendingFields

\* ------------------------------------------------------------ SpecEnabled
\* The flow of Spec in the deployments where handoff is enabled, with the
\* force-bot override on or off, for a conversation that is new or in status
\* bot: a turn can hand off, and a later message finds what it wrote.
EnabledSettings == {DefaultDebounce(agg, FALSE, force) : agg \in BOOLEAN, force \in BOOLEAN}

InitEnabled ==
    /\ InitCommon
    /\ msgs = EmptyMsgs
    /\ createCount = 0
    /\ settings \in EnabledSettings
    /\ conv \in {NoConv, StoredConv("bot", FALSE)}
    /\ \E f \in SidAssignments :
         req = [r \in Requests |->
                 IF r \in Deliveries THEN NewReq("idle", f[r]) ELSE NewReq("absent", 0)]

SpecEnabled == InitEnabled /\ [][Next]_vars

\* -------------------------------------------- claims on turns after a handoff
\* request r is ingested in this step: handle_webhook reads the conversation
IngestedNow(r) == req[r].pc = "idle" /\ req'[r].pc \notin {"idle", "done"}

\* a turn has written pending_handoff
WrotePending(k) ==
    \E i \in 1..Len(turn[k].writes) : turn[k].writes[i] = PendingFields

\* C37: a message ingested while the stored status is pending_handoff,
\* claimed or active carries that status in its snapshot, and a turn whose
\* first message has such a snapshot, with the override that forces bot not
\* in effect, calls no AI backend, records and sends no reply and writes
\* nothing; so every turn whose first message arrives after a turn wrote
\* pending_handoff is suppressed while the status stays in handoff.
C37_SuppressedAfterHandoff ==
    /\ [][\A r \in Requests :
            IngestedNow(r) /\ conv.status \in HandoffStatuses =>
                /\ req'[r].conv_data = conv
                /\ SnapshotStatus(req'[r].conv_data) \in HandoffStatuses]_vars
    /\ [](\A k \in Started :
            /\ SnapshotStatus(SnapshotOf(k)) \in HandoffStatuses
            /\ ~(settings.FEATURE_DISABLE_HANDOFF
                 /\ settings.FEATURE_FORCE_BOT_WHEN_HANDOFF_DISABLED)
            => /\ turn[k].pc \in {"gate", "done"}
               /\ ~turn[k].ai /\ ~turn[k].recorded /\ ~turn[k].sent
               /\ turn[k].writes = <<>>)

\* C37 witness: with the force-bot override off, a turn wrote pending_handoff
\* and the turn of a message that arrived afterwards has returned without an
\* AI call, a reply or a write, the stored status still pending_handoff
C37_Witness ==
    /\ ~settings.FEATURE_FORCE_BOT_WHEN_HANDOFF_DISABLED
    /\ conv.status = "pending_handoff"
    /\ \E j, k \in Started :
         /\ j # k /\ turn[j].sid # turn[k].sid
         /\ WrotePending(j) /\ turn[j].pc = "done"
         /\ SnapshotStatus(SnapshotOf(k)) = "pending_handoff"
         /\ turn[k].pc = "done" /\ ~turn[k].ai /\ ~turn[k].sent /\ turn[k].writes = <<>>

\* -------------------------------------------------------------- SpecLocks
\* The locks of the aggregation manager, one step per acquire and per
\* release: _buffers_lock (the registry lock) and the lock of each buffer
\* dict, taken by the add calls, by the Timer callbacks they schedule and by
\* get_aggregation_debug_info, for one conversation id.  hist holds the
\* owner of each lock (0: free), the registry, the buffers and each
\* thread's position.

\* the add calls; the Timer scheduled by add call a is thread TimerOf(a)
NumAdders == 3
Adders == 1..NumAdders
TimerOf(a) == NumAdders + a
TimerThreads == {TimerOf(a) : a \in Adders}
\* the request of /debug/buffers
DebugThread == 2 * NumAdders + 1
LockThreads == Adders \cup TimerThreads \cup {DebugThread}
\* every add call can create one buffer dict
BufferIds == 1..NumAdders

InitLocks ==
    /\ now = StartTime
    /\ registry = 0
    /\ buffers = [b \in Requests |-> NoBuffer]
    /\ timers = [t \in Requests |-> NoTimer]
    /\ cb = [t \in Requests |-> IdleCb]
    /\ turn = [k \in Owners |-> IdleTurn]
    /\ settings = DefaultDebounce(TRUE, FALSE, TRUE)
    /\ conv = DefaultConv
    /\ msgs = EmptyMsgs
    /\ createCount = 0
    /\ req = [r \in Requests |-> NewReq("absent", 0)]
    /\ hist = [buffers_lock |-> 0,
               message_buffers |-> 0,
               created |-> 0,
               lock |-> [b \in BufferIds |-> 0],
               messages |-> [b \in BufferIds |-> 0],
               timer |-> [b \in BufferIds |-> 0],
               pc |-> [i \in LockThreads |-> IF i \in TimerThreads THEN "unset" ELSE "start"],
               buffer |-> [i \in LockThreads |-> 0]]

LocksUnchanged ==
    UNCHANGED <<settings, now, conv, msgs, createCount, req, registry, buffers,
                timers, cb, turn>>

\* timer.cancel(): a Timer that has not fired yet never runs its callback
CancelledTimer(pcs, t) ==
    IF t # 0 /\ pcs[t] = "pending" THEN [pcs EXCEPT ![t] = "cancelled"] ELSE pcs

\* _get_or_create_buffer: with _buffers_lock (acquire)
AddLockRegistry(a) ==
    /\ hist.pc[a] = "start"
    /\ hist.buffers_lock = 0
    /\ hist' = [hist EXCEPT !.buffers_lock = a, !.pc[a] = "registry"]
    /\ LocksUnchanged

\* _get_or_create_buffer: the dict of the conversation, created if absent;
\* _buffers_lock is released on return
AddGetOrCreate(a) ==
    /\ hist.pc[a] = "registry"
    /\ LET b == IF hist.message_buffers = 0 THEN hist.created + 1
                ELSE hist.message_buffers
       IN  hist' = [hist EXCEPT !.message_buffers = b,
                                !.created = IF hist.message_buffers = 0 THEN @ + 1 ELSE @,
                                !.buffer[a] = b,
                                !.buffers_lock = 0,
                                !.pc[a] = "want_lock"]
    /\ LocksUnchanged

\* _add_to_aggregation_buffer: with buffer["lock"] (acquire)
AddLockBuffer(a) ==
    /\ hist.pc[a] = "want_lock"
    /\ hist.lock[hist.buffer[a]] = 0
    /\ hist' = [hist EXCEPT !.lock[hist.buffer[a]] = a, !.pc[a] = "locked"]
    /\ LocksUnchanged

\* lines 313-356: the append, the cancel of the buffer's timer, the new
\* Timer, and the release of buffer["lock"]
AddAppendAndStart(a) ==
    /\ hist.pc[a] = "locked"
    /\ LET b == hist.buffer[a]
           pcs == CancelledTimer(hist.pc, hist.timer[b])
       IN  hist' = [hist EXCEPT !.messages[b] = @ + 1,
                                !.timer[b] = TimerOf(a),
                                !.lock[b] = 0,
                                !.pc = [pcs EXCEPT ![a] = "done", ![TimerOf(a)] = "pending"]]
    /\ LocksUnchanged

\* _process_aggregated_messages: buffer = _message_buffers.get(conversation_id),
\* read without a lock
CallbackGet(t) ==
    /\ hist.pc[t] = "pending"
    /\ hist' = [hist EXCEPT !.buffer[t] = hist.message_buffers,
                            !.pc[t] = IF hist.message_buffers = 0 THEN "done"
                                      ELSE "want_lock"]
    /\ LocksUnchanged

\* _process_aggregated_messages: with buffer["lock"] (acquire)
CallbackLockBuffer(t) ==
    /\ hist.pc[t] = "want_lock"
    /\ hist.lock[hist.buffer[t]] = 0
    /\ hist' = [hist EXCEPT !.lock[hist.buffer[t]] = t, !.pc[t] = "locked"]
    /\ LocksUnchanged

\* lines 217-227: an empty buffer is cleared inside the lock; otherwise
\* buffer["timer"] = None and the lock is released
CallbackTake(t) ==
    /\ hist.pc[t] = "locked"
    /\ LET b == hist.buffer[t]
       IN  IF hist.messages[b] = 0
           THEN hist' = [hist EXCEPT !.pc[t] = "clear_locked"]
           ELSE hist' = [hist EXCEPT !.timer[b] = 0, !.lock[b] = 0, !.pc[t] = "clear"]
    /\ LocksUnchanged

\* _clear_buffer: with _buffers_lock (acquire), called with the buffer lock
\* held (line 223) or after its release (line 229)
CallbackLockRegistry(t) ==
    /\ hist.pc[t] \in {"clear_locked", "clear"}
    /\ hist.buffers_lock = 0
    /\ hist' = [hist EXCEPT !.buffers_lock = t,
                            !.pc[t] = IF hist.pc[t] = "clear" THEN "pop" ELSE "pop_locked"]
    /\ LocksUnchanged

\* a callback that returns from the empty-buffer branch with the buffer lock
\* still taken
CallbackPopKeepsLock(t) ==
    /\ hist.pc[t] \in {"pop_locked", "pop"}
    /\ LET popped == hist.message_buffers
           pcs == IF popped = 0 THEN hist.pc ELSE CancelledTimer(hist.pc, hist.timer[popped])
       IN  hist' = [hist EXCEPT !.message_buffers = 0,
                                !.buffers_lock = 0,
                                !.pc = [pcs EXCEPT ![t] = "done"]]
    /\ LocksUnchanged

\* _clear_buffer: the pop, the cancel of the popped buffer's timer, the
\* release of _buffers_lock, and, on the return at line 224, the release of
\* the buffer lock
CallbackPop(t) ==
    /\ hist.pc[t] \in {"pop_locked", "pop"}
    /\ LET popped == hist.message_buffers
           pcs == IF popped = 0 THEN hist.pc ELSE CancelledTimer(hist.pc, hist.timer[popped])
       IN  hist' = [hist EXCEPT !.message_buffers = 0,
                                !.buffers_lock = 0,
                                !.lock[hist.buffer[t]] =
                                    IF hist.pc[t] = "pop_locked" THEN 0 ELSE @,
                                !.pc = [pcs EXCEPT ![t] = "done"]]
    /\ LocksUnchanged

\* get_aggregation_debug_info: with _buffers_lock (acquire)
DebugLockRegistry ==
    /\ hist.pc[DebugThread] = "start"
    /\ hist.buffers_lock = 0
    /\ hist' = [hist EXCEPT !.buffers_lock = DebugThread, !.pc[DebugThread] = "registry"]
    /\ LocksUnchanged

\* get_aggregation_debug_info: the buffers are read without their locks and
\* _buffers_lock is released
DebugSnapshot ==
    /\ hist.pc[DebugThread] = "registry"
    /\ hist' = [hist EXCEPT !.buffers_lock = 0, !.pc[DebugThread] = "done"]
    /\ LocksUnchanged

NextLocks ==
    \/ \E a \in Adders :
         \/ AddLockRegistry(a)
         \/ AddGetOrCreate(a)
         \/ AddLockBuffer(a)
         \/ AddAppendAndStart(a)
    \/ \E t \in TimerThreads :
         \/ CallbackGet(t)
         \/ CallbackLockBuffer(t)
         \/ CallbackTake(t)
         \/ CallbackLockRegistry(t)
         \/ CallbackPop(t)
    \/ DebugLockRegistry
    \/ DebugSnapshot

SpecLocks == InitLocks /\ [][NextLocks]_vars

\* every thread that can take a step eventually takes one
SpecLocksFair == SpecLocks /\ WF_vars(NextLocks)

\* ---------------------------------------------------------- claims on locks
\* thread i has returned, or is a Timer that was cancelled or never started
Returned(i) == hist.pc[i] \in {"done", "cancelled", "unset"}

AllLocksFree == hist.buffers_lock = 0 /\ \A b \in BufferIds : hist.lock[b] = 0

\* C38: a thread that is acquiring a buffer lock does not hold the registry
\* lock; while a thread has not returned some thread can take a step; and
\* in the end every add call and every callback has returned and every lock
\* is free.
C38_NoDeadlock ==
    /\ [](\A i \in LockThreads :
            hist.pc[i] = "want_lock" => hist.buffers_lock # i)
    /\ []((\E i \in LockThreads : ~Returned(i)) => ENABLED NextLocks)
    /\ <>[](AllLocksFree /\ \A i \in LockThreads : Returned(i))

\* C38 witness: a callback holds the lock of an empty buffer and waits for
\* the registry lock, which another thread holds
C38_Witness ==
    \E t \in TimerThreads :
        /\ hist.pc[t] = "clear_locked"
        /\ hist.lock[hist.buffer[t]] = t
        /\ hist.buffers_lock \notin {0, t}

\* -------------------------------------------------------------- SpecReply
\* reply_text as a string (lines 652-699), for one turn: the texts of the AI
\* response (or the exception of the call), whether handoff was requested,
\* and the configured texts.  A string is a sequence of characters.  hist
\* holds the inputs, reply_text, and the text recorded and sent.

\* a text without characters
EmptyText == <<>>

\* FALLBACK_STABILITY_TEXT, shortened
FallbackStabilityText == <<"T", "i", "v", "e", "m", "o", "s">>

\* lines of a response (detect_intent_text drops the empty ones): blank, a
\* word, a word with blanks around it
ReplyLines == {<<" ">>, <<"o", "k">>, <<" ", "o", " ">>}

\* a response has up to MaxTexts texts
MaxTexts == 2
ReplyTexts == UNION {[1..n -> ReplyLines] : n \in 0..MaxTexts}

\* HANDOFF_DISABLED_TEXT (trimmed by config.py) and HANDOFF_ACK_TEXT (as the
\* environment gives it): absent or empty, blank, or a text
DisabledTexts == {<<>>, <<"d">>}
AckTexts == {<<>>, <<" ">>, <<"a">>}

\* a or b of Python, on strings
OrElse(a, b) == IF a # <<>> THEN a ELSE b

\* "\n\n".join(parts)
RECURSIVE JoinParagraphs(_)
JoinParagraphs(parts) ==
    IF parts = <<>> THEN <<>>
    ELSE IF Len(parts) = 1 THEN parts[1]
    ELSE parts[1] \o <<"\n", "\n">> \o JoinParagraphs(Tail(parts))

\* the texts trimmed, without those that are blank
RECURSIVE StrippedParts(_)
StrippedParts(texts) ==
    IF texts = <<>> THEN <<>>
    ELSE IF Strip(Head(texts)) # <<>>
    THEN <<Strip(Head(texts))>> \o StrippedParts(Tail(texts))
    ELSE StrippedParts(Tail(texts))

\* _join_bot_texts
JoinBotTexts(texts) == JoinParagraphs(StrippedParts(texts))

\* lines 652-699: reply_text
ReplyTextOf(cx_raised, texts, handoff_requested, disable, disabled_text, ack_text) ==
    LET bot_reply_text == JoinBotTexts(texts)
    IN  IF cx_raised THEN FallbackStabilityText
        ELSE IF handoff_requested /\ disable
        THEN OrElse(disabled_text,
                    OrElse(bot_reply_text, OrElse(ack_text, FallbackStabilityText)))
        ELSE IF handoff_requested
        THEN OrElse(bot_reply_text, OrElse(ack_text, FallbackStabilityText))
        ELSE OrElse(bot_reply_text, FallbackStabilityText)

InitReply ==
    /\ now = StartTime
    /\ registry = 0
    /\ buffers = [b \in Requests |-> NoBuffer]
    /\ timers = [t \in Requests |-> NoTimer]
    /\ cb = [t \in Requests |-> IdleCb]
    /\ turn = [k \in Owners |-> IdleTurn]
    /\ settings = DefaultDebounce(TRUE, FALSE, TRUE)
    /\ conv = DefaultConv
    /\ msgs = EmptyMsgs
    /\ createCount = 0
    /\ req = [r \in Requests |-> NewReq("absent", 0)]
    /\ \E cx_raised \in BOOLEAN, texts \in ReplyTexts, handoff_requested \in BOOLEAN,
          disable \in BOOLEAN, disabled_text \in DisabledTexts, ack_text \in AckTexts :
         hist = [pc |-> "reply", cx_raised |-> cx_raised,
                 texts |-> IF cx_raised THEN <<>> ELSE texts,
                 handoff_requested |-> ~cx_raised /\ handoff_requested,
                 disable |-> disable, disabled_text |-> disabled_text,
                 ack_text |-> ack_text, reply_text |-> <<>>, recorded |-> <<>>,
                 sent |-> <<>>]

\* lines 652-699: reply_text is chosen
ChooseReply ==
    /\ hist.pc = "reply"
    /\ hist' = [hist EXCEPT
                  !.pc = "record",
                  !.reply_text = ReplyTextOf(hist.cx_raised, hist.texts,
                                             hist.handoff_requested, hist.disable,
                                             hist.disabled_text, hist.ack_text)]
    /\ UNCHANGED <<settings, now, conv, msgs, createCount, req, registry, buffers,
                   timers, cb, turn>>

\* lines 655-657 and 701-706: add_message_if_new(..., reply_text), and
\* send_whatsapp_text(frm, reply_text) when the record is new
RecordAndSendReply ==
    /\ hist.pc = "record"
    /\ \E created_out \in BOOLEAN :
         hist' = [hist EXCEPT
                    !.pc = "returned",
                    !.recorded = IF created_out THEN hist.reply_text ELSE @,
                    !.sent = IF created_out THEN hist.reply_text ELSE @]
    /\ UNCHANGED <<settings, now, conv, msgs, createCount, req, registry, buffers,
                   timers, cb, turn>>

NextReply == ChooseReply \/ RecordAndSendReply

SpecReply == InitReply /\ [][NextReply]_vars

\* C39: the text of every reply that is chosen has a character, and so has
\* the text that is recorded and sent, whatever the response texts, the
\* handoff outcome and the configured texts.
C39_ReplyNotEmpty ==
    /\ hist.pc \in {"record", "returned"} => hist.reply_text # <<>>
    /\ hist.pc = "returned" =>
         \/ hist.recorded = <<>> /\ hist.sent = <<>>
         \/ hist.recorded = hist.reply_text /\ hist.sent = hist.reply_text

\* C39 witness: handoff was requested while disabled, the response has only
\* blank lines and both configured texts are empty: the fallback text was
\* recorded and sent
C39_Witness ==
    /\ hist.pc = "returned"
    /\ hist.handoff_requested /\ hist.disable /\ ~hist.cx_raised
    /\ hist.texts = <<<<" ">>, <<" ">>>>
    /\ hist.disabled_text = <<>> /\ hist.ack_text = <<>>
    /\ hist.sent = FallbackStabilityText /\ hist.recorded = FallbackStabilityText

\* ----------------------------------------- claims on the status at detection
\* the turn has come to the AI call and the handoff detection after it
ReachedDetection(k) == turn[k].pc = "ai" \/ turn[k].ai

\* C40: a turn that comes to handoff detection from a snapshot status of
\* bot, pending_handoff, claimed, active or resolved has the local status bot
\* there, after a reopening or a forced conversion too; a handoff it then
\* takes from the parameter alone needs only the parameter name configured.
C40_StatusBotAtDetection ==
    \A k \in Started :
        ReachedDetection(k) /\ SnapshotStatus(SnapshotOf(k)) \in Statuses =>
            /\ turn[k].status = "bot"
            /\ turn[k].handoff /\ ~turn[k].hint => settings.DF_HANDOFF_PARAM

\* C40 witness: a turn reopened a resolved conversation and in the same turn
\* took a handoff requested by the parameter alone
C40_Witness ==
    \E k \in Started :
        /\ SnapshotStatus(SnapshotOf(k)) = "resolved"
        /\ turn[k].writes # <<>> /\ turn[k].writes[1] = BotFields
        /\ turn[k].handoff /\ ~turn[k].hint
        /\ turn[k].pc = "done" /\ turn[k].sent

====
